---- MODULE Spec2Model ----
(***************************************************************************)
(* LazyCut manual editor: the timeline model (models/project.py), the      *)
(* command engine with undo/redo (models/commands.py), the export graph    *)
(* compiler (export/ffmpeg_graph.py) and the export worker                 *)
(* (export/exporter.py).                                                   *)
(*                                                                         *)
(* Python objects are references.  Every Clip, AudioClip and Subtitle is   *)
(* built with a uuid4 id, so an object is identified with its id: `heap`   *)
(* maps the id of every live object to its fields, and track lists and     *)
(* commands hold ids.  Objects nothing refers to any more are dropped from *)
(* the heap, as the interpreter frees them.  Times are whole numbers of a  *)
(* time unit.  Python's None is <<>> and a present value v is <<v>>.       *)
(***************************************************************************)
EXTENDS Integers, Sequences, FiniteSets, TLC

\* Number of uuid4 ids (entity objects) one run creates.
MaxIds == 2
\* Number of command objects one run records in the history.
MaxCmds == 2
\* CommandHistory(max_history): the size of the undo stack.
max_history == 1
\* Number of times one run hands history.execute a command object it already holds.
MaxAgain == 1
MaxExports == 2
\* Number of Project objects one run creates (Project.id).
MaxProjects == 3

None == <<>>
Some(v) == <<v>>
IsNone(o) == o = <<>>
Get(o) == o[1]

Min(S) == CHOOSE x \in S : \A y \in S : x <= y
Max(S) == CHOOSE x \in S : \A y \in S : x >= y

\* list.index: the first position of x in seq, 0 when absent.
IndexOf(seq, x) ==
  LET hits == {i \in 1..Len(seq) : seq[i] = x}
  IN IF hits = {} THEN 0 ELSE Min(hits)

\* list.pop(i)
RemoveAt(seq, i) == SubSeq(seq, 1, i - 1) \o SubSeq(seq, i + 1, Len(seq))

RECURSIVE Flatten(_)
Flatten(tracks) ==
  IF tracks = <<>> THEN <<>> ELSE Head(tracks) \o Flatten(Tail(tracks))

Range(seq) == {seq[i] : i \in 1..Len(seq)}

(***************************************************************************)
(* models/project.py                                                       *)
(***************************************************************************)

\* Clip.create_new: the fields of a new video clip (enabled and name default).
Clip(source_file, in_time, out_time, timeline_start, track_index) ==
  [source_file |-> source_file, in_time |-> in_time, out_time |-> out_time,
   timeline_start |-> timeline_start, track_index |-> track_index,
   name |-> <<source_file, 0>>, enabled |-> TRUE]

\* AudioClip.create_new
AudioClip(source_file, in_time, out_time, timeline_start, track_index, volume) ==
  [source_file |-> source_file, in_time |-> in_time, out_time |-> out_time,
   timeline_start |-> timeline_start, track_index |-> track_index,
   volume |-> volume, name |-> <<source_file, 0>>, enabled |-> TRUE]

\* Subtitle.create_new (the style is the default dictionary)
Subtitle(text, start_time, duration) ==
  [text |-> text, start_time |-> start_time, duration |-> duration,
   style |-> "default"]

\* Clip.duration / AudioClip.duration
duration(c) == c.out_time - c.in_time
\* Clip.timeline_end / AudioClip.timeline_end
timeline_end(c) == c.timeline_start + duration(c)
\* contains_time with the end of the clip included.
contains_time_closed(c, time) == c.timeline_start <= time /\ time <= timeline_end(c)
\* Clip.contains_time
contains_time(c, time) == c.timeline_start <= time /\ time < timeline_end(c)
\* Subtitle.end_time
end_time(s) == s.start_time + s.duration

\* Project.__init__: one video track, two audio tracks, no subtitles.
EmptyProject ==
  [heap |-> <<>>, video_tracks |-> << <<>> >>, audio_tracks |-> << <<>>, <<>> >>,
   subtitles |-> <<>>]

\* Project.get_all_clips / get_all_audio_clips
get_all_clips(P) == Flatten(P.video_tracks)
get_all_audio_clips(P) == Flatten(P.audio_tracks)

\* Project.get_clip_by_id: the first clip with that id over all video tracks.
get_clip_by_id(P, clip_id) ==
  IF IndexOf(get_all_clips(P), clip_id) > 0 THEN Some(clip_id) ELSE None
\* Project.get_audio_clip_by_id
get_audio_clip_by_id(P, clip_id) ==
  IF IndexOf(get_all_audio_clips(P), clip_id) > 0 THEN Some(clip_id) ELSE None
\* Project.get_subtitle_by_id
get_subtitle_by_id(P, sub_id) ==
  IF IndexOf(P.subtitles, sub_id) > 0 THEN Some(sub_id) ELSE None

\* `while len(tracks) <= track_index: tracks.append([])`, then append the clip.
AppendToTrack(tracks, track_index, c) ==
  LET padded == IF Len(tracks) <= track_index
                THEN tracks \o [i \in 1..(track_index + 1 - Len(tracks)) |-> <<>>]
                ELSE tracks
  IN [padded EXCEPT ![track_index + 1] = Append(@, c)]

\* The first track holding c loses its first occurrence of c.
RemoveFromTracks(tracks, c) ==
  LET ts == {t \in 1..Len(tracks) : IndexOf(tracks[t], c) > 0}
  IN IF ts = {} THEN tracks
     ELSE [tracks EXCEPT ![Min(ts)] = RemoveAt(@, IndexOf(@, c))]

\* Project.add_clip
add_clip(P, c) ==
  [P EXCEPT !.video_tracks = AppendToTrack(@, P.heap[c].track_index, c)]
\* Project.add_audio_clip
add_audio_clip(P, c) ==
  [P EXCEPT !.audio_tracks = AppendToTrack(@, P.heap[c].track_index, c)]
\* Project.add_subtitle
add_subtitle(P, s) == [P EXCEPT !.subtitles = Append(@, s)]

\* Project.remove_clip that pops the head of the track that holds the clip.
remove_clip_pops_head(P, clip_id) ==
  [found |-> ~IsNone(get_clip_by_id(P, clip_id)),
   P |-> [P EXCEPT !.video_tracks =
            [t \in 1..Len(@) |-> IF IndexOf(@[t], clip_id) > 0 THEN Tail(@[t])
                                 ELSE @[t]]]]
\* Project.remove_clip: [found, P]
remove_clip(P, clip_id) ==
  [found |-> ~IsNone(get_clip_by_id(P, clip_id)),
   P |-> [P EXCEPT !.video_tracks = RemoveFromTracks(@, clip_id)]]
\* Project.remove_audio_clip
remove_audio_clip(P, clip_id) ==
  [found |-> ~IsNone(get_audio_clip_by_id(P, clip_id)),
   P |-> [P EXCEPT !.audio_tracks = RemoveFromTracks(@, clip_id)]]
\* Project.remove_subtitle
remove_subtitle(P, sub_id) ==
  [found |-> ~IsNone(get_subtitle_by_id(P, sub_id)),
   P |-> [P EXCEPT !.subtitles =
            IF IndexOf(@, sub_id) > 0 THEN RemoveAt(@, IndexOf(@, sub_id)) ELSE @]]

\* Project.duration
project_duration(P) ==
  Max({0}
      \cup {timeline_end(P.heap[c]) : c \in {x \in Range(get_all_clips(P)) : P.heap[x].enabled}}
      \cup {timeline_end(P.heap[c]) : c \in {x \in Range(get_all_audio_clips(P)) : P.heap[x].enabled}}
      \cup {end_time(P.heap[s]) : s \in Range(P.subtitles)})

\* Project.get_clips_at_time
get_clips_at_time(P, time) ==
  SelectSeq(get_all_clips(P),
            LAMBDA c : P.heap[c].enabled /\ contains_time(P.heap[c], time))

\* A new object enters the heap under a fresh uuid4 id.
Alloc(P, id, obj) ==
  [P EXCEPT !.heap = [i \in DOMAIN P.heap \cup {id} |->
                        IF i = id THEN obj ELSE P.heap[i]]]

(***************************************************************************)
(* models/project.py and shared/project_io.py: the project file.  A dict   *)
(* is a record with the dict's keys, a list a sequence; `json.dump` and    *)
(* `json.load` write and read back strings, numbers, booleans, lists and   *)
(* str-keyed dicts, which is all the dicts of to_dict() hold.  `meta` is   *)
(* the rest of a Project: id, name, settings and media_pool.               *)
(***************************************************************************)
\* dict.get(key, default)
GetOr(data, key, default) == IF key \in DOMAIN data THEN data[key] ELSE default
\* `if not self.name: self.name = os.path.basename(self.source_file)`
\* (a name is the base name and the number of " (2)" it carries)
NoName == <<"", 0>>
post_init(c) == IF c.name = NoName THEN [c EXCEPT !.name = <<c.source_file, 0>>] ELSE c

\* Clip.to_dict without the `enabled` key.
Clip_to_dict_no_enabled(id, c) ==
  [id |-> id, source_file |-> c.source_file, in_time |-> c.in_time,
   out_time |-> c.out_time, timeline_start |-> c.timeline_start,
   track_index |-> c.track_index, name |-> c.name]
\* Clip.to_dict
Clip_to_dict(id, c) ==
  [id |-> id, source_file |-> c.source_file, in_time |-> c.in_time,
   out_time |-> c.out_time, timeline_start |-> c.timeline_start,
   track_index |-> c.track_index, name |-> c.name, enabled |-> c.enabled]
\* Clip.from_dict: [id, fields]
Clip_from_dict(data) ==
  [id |-> data.id,
   fields |-> post_init(
     [source_file |-> data.source_file, in_time |-> data.in_time,
      out_time |-> data.out_time, timeline_start |-> data.timeline_start,
      track_index |-> GetOr(data, "track_index", 0),
      name |-> GetOr(data, "name", NoName),
      enabled |-> GetOr(data, "enabled", TRUE)])]
\* AudioClip.to_dict
AudioClip_to_dict(id, c) ==
  [id |-> id, source_file |-> c.source_file, in_time |-> c.in_time,
   out_time |-> c.out_time, timeline_start |-> c.timeline_start,
   track_index |-> c.track_index, volume |-> c.volume, name |-> c.name,
   enabled |-> c.enabled]
\* AudioClip.from_dict
AudioClip_from_dict(data) ==
  [id |-> data.id,
   fields |-> post_init(
     [source_file |-> data.source_file, in_time |-> data.in_time,
      out_time |-> data.out_time, timeline_start |-> data.timeline_start,
      track_index |-> GetOr(data, "track_index", 0),
      volume |-> GetOr(data, "volume", 1),
      name |-> GetOr(data, "name", NoName),
      enabled |-> GetOr(data, "enabled", TRUE)])]
\* Subtitle.to_dict
Subtitle_to_dict(id, sub) ==
  [id |-> id, text |-> sub.text, start_time |-> sub.start_time,
   duration |-> sub.duration, style |-> sub.style]
\* Subtitle.from_dict
Subtitle_from_dict(data) ==
  [id |-> data.id,
   fields |-> [text |-> data.text, start_time |-> data.start_time,
               duration |-> data.duration, style |-> GetOr(data, "style", "{}")]]
\* ProjectSettings and its to_dict / from_dict
ProjectSettings == [width |-> 1920, height |-> 1080, fps |-> 30, sample_rate |-> 48000]
ProjectSettings_to_dict(settings) ==
  [width |-> settings.width, height |-> settings.height, fps |-> settings.fps,
   sample_rate |-> settings.sample_rate]
ProjectSettings_from_dict(data) ==
  [width |-> GetOr(data, "width", 1920), height |-> GetOr(data, "height", 1080),
   fps |-> GetOr(data, "fps", 30), sample_rate |-> GetOr(data, "sample_rate", 48000)]

\* Project.__init__: the fields besides the tracks and the subtitles.
NewMeta(id, name) ==
  [id |-> id, name |-> name, settings |-> ProjectSettings, media_pool |-> <<>>]

\* Project.to_dict
Project_to_dict(P, M) ==
  [id |-> M.id, name |-> M.name,
   video_tracks |-> [t \in 1..Len(P.video_tracks) |->
                       [i \in 1..Len(P.video_tracks[t]) |->
                          Clip_to_dict(P.video_tracks[t][i], P.heap[P.video_tracks[t][i]])]],
   audio_tracks |-> [t \in 1..Len(P.audio_tracks) |->
                       [i \in 1..Len(P.audio_tracks[t]) |->
                          AudioClip_to_dict(P.audio_tracks[t][i],
                                            P.heap[P.audio_tracks[t][i]])]],
   subtitles |-> [i \in 1..Len(P.subtitles) |->
                    Subtitle_to_dict(P.subtitles[i], P.heap[P.subtitles[i]])],
   settings |-> ProjectSettings_to_dict(M.settings),
   media_pool |-> M.media_pool]

\* The ids of tracks of entities.
TrackIds(tracks) ==
  [t \in 1..Len(tracks) |-> [i \in 1..Len(tracks[t]) |-> tracks[t][i].id]]
\* Project.from_dict, uuid the id Project.__init__ draws: [P, M]
Project_from_dict(data, uuid) ==
  LET video == LET d == GetOr(data, "video_tracks", << <<>> >>)
               IN [t \in 1..Len(d) |-> [i \in 1..Len(d[t]) |-> Clip_from_dict(d[t][i])]]
      audio == LET d == GetOr(data, "audio_tracks", << <<>>, <<>> >>)
               IN [t \in 1..Len(d) |-> [i \in 1..Len(d[t]) |-> AudioClip_from_dict(d[t][i])]]
      subs == LET d == GetOr(data, "subtitles", <<>>)
              IN [i \in 1..Len(d) |-> Subtitle_from_dict(d[i])]
      all == Range(Flatten(video)) \cup Range(Flatten(audio)) \cup Range(subs)
  IN [P |-> [heap |-> [i \in {e.id : e \in all} |->
                         (CHOOSE e \in all : e.id = i).fields],
             video_tracks |-> TrackIds(video),
             audio_tracks |-> TrackIds(audio),
             subtitles |-> [i \in 1..Len(subs) |-> subs[i].id]],
      M |-> [id |-> GetOr(data, "id", uuid),
             name |-> GetOr(data, "name", "Untitled"),
             settings |-> IF "settings" \in DOMAIN data
                          THEN ProjectSettings_from_dict(data.settings)
                          ELSE ProjectSettings,
             media_pool |-> GetOr(data, "media_pool", <<>>)]]

\* Project.import_media
import_media(M, file_path, exists) ==
  IF exists /\ IndexOf(M.media_pool, file_path) = 0
  THEN [M EXCEPT !.media_pool = Append(@, file_path)]
  ELSE M

PROJECT_VERSION == "1.0.0"
\* What a project file holds: nothing readable as JSON, or a JSON object.
Garbled == [json |-> FALSE, data |-> <<>>]
Json(data) == [json |-> TRUE, data |-> data]
\* save_project: the file's content when the write succeeds.
save_project(P, M, now) ==
  Json([version |-> PROJECT_VERSION, saved_at |-> now, project |-> Project_to_dict(P, M)])
\* load_project, file the content of the file or None: [raised, P, M]
load_project(file, uuid) ==
  IF IsNone(file) \/ ~Get(file).json \/ "project" \notin DOMAIN Get(file).data
  THEN [raised |-> TRUE, P |-> EmptyProject, M |-> NewMeta(uuid, "")]
  ELSE LET r == Project_from_dict(Get(file).data.project, uuid)
       IN [raised |-> FALSE, P |-> r.P, M |-> r.M]

(***************************************************************************)
(* models/commands.py: the commands.  A command is a record of its class   *)
(* (`type`), the fields __init__ sets and the fields execute() captures;   *)
(* `oid` is the identity of the command object.  execute and undo take the *)
(* command and the project and give [ok, P, cmd]: the return value, the    *)
(* project afterwards and the command object afterwards.                   *)
(***************************************************************************)

Result(ok, P, cmd) == [ok |-> ok, P |-> P, cmd |-> cmd]

\* AddClipCommand.execute
AddClipCommand_execute(cmd, P) == Result(TRUE, add_clip(P, cmd._clip), cmd)
\* AddClipCommand.undo that removes the clip and returns nothing.
AddClipCommand_undo_returns_none(cmd, P) ==
  LET r == remove_clip(P, cmd._clip) IN Result(FALSE, r.P, cmd)
\* AddClipCommand.undo
AddClipCommand_undo(cmd, P) ==
  LET r == remove_clip(P, cmd._clip) IN Result(r.found, r.P, cmd)

\* DeleteClipCommand.execute
DeleteClipCommand_execute(cmd, P) ==
  LET found == get_clip_by_id(P, cmd._clip_id)
      c == [cmd EXCEPT !._clip = found]
  IN IF ~IsNone(found)
     THEN LET r == remove_clip(P, cmd._clip_id) IN Result(r.found, r.P, c)
     ELSE Result(FALSE, P, c)
\* DeleteClipCommand.undo that reports success and puts nothing back.
DeleteClipCommand_undo_forgets(cmd, P) == Result(~IsNone(cmd._clip), P, cmd)
\* DeleteClipCommand.undo
DeleteClipCommand_undo(cmd, P) ==
  IF ~IsNone(cmd._clip) THEN Result(TRUE, add_clip(P, Get(cmd._clip)), cmd)
  ELSE Result(FALSE, P, cmd)

\* MoveClipCommand.execute that reads the old start after it has set the new one.
MoveClipCommand_execute_captures_late(cmd, P) ==
  LET clip == get_clip_by_id(P, cmd._clip_id)
  IN IF ~IsNone(clip)
     THEN Result(TRUE,
                 [P EXCEPT !.heap[Get(clip)].timeline_start = cmd._new_start],
                 [cmd EXCEPT !._old_start = Some(cmd._new_start)])
     ELSE Result(FALSE, P, cmd)
\* MoveClipCommand.execute
MoveClipCommand_execute(cmd, P) ==
  LET clip == get_clip_by_id(P, cmd._clip_id)
  IN IF ~IsNone(clip)
     THEN Result(TRUE,
                 [P EXCEPT !.heap[Get(clip)].timeline_start = cmd._new_start],
                 [cmd EXCEPT !._old_start = Some(P.heap[Get(clip)].timeline_start)])
     ELSE Result(FALSE, P, cmd)
\* MoveClipCommand.undo
MoveClipCommand_undo(cmd, P) ==
  LET clip == get_clip_by_id(P, cmd._clip_id)
  IN IF ~IsNone(cmd._old_start) /\ ~IsNone(clip)
     THEN Result(TRUE,
                 [P EXCEPT !.heap[Get(clip)].timeline_start = Get(cmd._old_start)],
                 cmd)
     ELSE Result(FALSE, P, cmd)

\* `if new is not None: field = new`
OrKeep(new, old) == IF IsNone(new) THEN old ELSE Get(new)

\* TrimClipCommand.execute
TrimClipCommand_execute(cmd, P) ==
  LET clip == get_clip_by_id(P, cmd._clip_id)
  IN IF IsNone(clip) THEN Result(FALSE, P, cmd)
     ELSE LET o == P.heap[Get(clip)]
          IN Result(TRUE,
                    [P EXCEPT !.heap[Get(clip)] =
                       [o EXCEPT !.in_time = OrKeep(cmd._new_in_time, @),
                                 !.out_time = OrKeep(cmd._new_out_time, @),
                                 !.timeline_start = OrKeep(cmd._new_timeline_start, @)]],
                    [cmd EXCEPT !._old_in_time = Some(o.in_time),
                                !._old_out_time = Some(o.out_time),
                                !._old_timeline_start = Some(o.timeline_start)])
\* TrimClipCommand.undo
TrimClipCommand_undo(cmd, P) ==
  LET clip == get_clip_by_id(P, cmd._clip_id)
  IN IF IsNone(clip) THEN Result(FALSE, P, cmd)
     ELSE Result(TRUE,
                 [P EXCEPT !.heap[Get(clip)] =
                    [@ EXCEPT !.in_time = OrKeep(cmd._old_in_time, @),
                              !.out_time = OrKeep(cmd._old_out_time, @),
                              !.timeline_start = OrKeep(cmd._old_timeline_start, @)]],
                 cmd)

\* SplitClipCommand.execute that cuts the source at the timeline time.
SplitClipCommand_execute_no_offset(cmd, P, uuid) ==
  LET clip == get_clip_by_id(P, cmd._clip_id)
  IN IF IsNone(clip) THEN Result(FALSE, P, cmd)
     ELSE LET o == P.heap[Get(clip)]
          IN IF ~contains_time(o, cmd._split_time) THEN Result(FALSE, P, cmd)
             ELSE LET split_source_time == cmd._split_time
                      new_clip == [Clip(o.source_file, split_source_time, o.out_time,
                                        cmd._split_time, o.track_index)
                                   EXCEPT !.name = <<o.name[1], o.name[2] + 1>>]
                      P1 == Alloc(P, uuid, new_clip)
                      P2 == [P1 EXCEPT !.heap[Get(clip)].out_time = split_source_time]
                  IN Result(TRUE, add_clip(P2, uuid),
                            [cmd EXCEPT !._old_out_time = Some(o.out_time),
                                        !._new_clip = Some(uuid)])
\* SplitClipCommand.execute that leaves the original clip's out_time alone.
SplitClipCommand_execute_keeps_out(cmd, P, uuid) ==
  LET clip == get_clip_by_id(P, cmd._clip_id)
  IN IF IsNone(clip) THEN Result(FALSE, P, cmd)
     ELSE LET o == P.heap[Get(clip)]
          IN IF ~contains_time(o, cmd._split_time) THEN Result(FALSE, P, cmd)
             ELSE LET split_source_time == o.in_time + cmd._split_time - o.timeline_start
                      new_clip == [Clip(o.source_file, split_source_time, o.out_time,
                                        cmd._split_time, o.track_index)
                                   EXCEPT !.name = <<o.name[1], o.name[2] + 1>>]
                  IN Result(TRUE, add_clip(Alloc(P, uuid, new_clip), uuid),
                            [cmd EXCEPT !._old_out_time = Some(o.out_time),
                                        !._new_clip = Some(uuid)])
\* SplitClipCommand.execute; uuid is the id Clip.create_new draws.
SplitClipCommand_execute(cmd, P, uuid) ==
  LET clip == get_clip_by_id(P, cmd._clip_id)
  IN IF IsNone(clip) THEN Result(FALSE, P, cmd)
     ELSE LET o == P.heap[Get(clip)]
          IN IF ~contains_time(o, cmd._split_time) THEN Result(FALSE, P, cmd)
             ELSE LET time_into_clip == cmd._split_time - o.timeline_start
                      split_source_time == o.in_time + time_into_clip
                      new_clip == [Clip(o.source_file, split_source_time, o.out_time,
                                        cmd._split_time, o.track_index)
                                   EXCEPT !.name = <<o.name[1], o.name[2] + 1>>]
                      P1 == Alloc(P, uuid, new_clip)
                      P2 == [P1 EXCEPT !.heap[Get(clip)].out_time = split_source_time]
                  IN Result(TRUE, add_clip(P2, uuid),
                            [cmd EXCEPT !._old_out_time = Some(o.out_time),
                                        !._new_clip = Some(uuid)])
\* SplitClipCommand.undo: the new clip is removed before the original is looked up.
SplitClipCommand_undo(cmd, P) ==
  IF IsNone(cmd._new_clip) \/ IsNone(cmd._old_out_time) THEN Result(FALSE, P, cmd)
  ELSE LET P1 == remove_clip(P, Get(cmd._new_clip)).P
           clip == get_clip_by_id(P1, cmd._clip_id)
       IN IF ~IsNone(clip)
          THEN Result(TRUE,
                      [P1 EXCEPT !.heap[Get(clip)].out_time = Get(cmd._old_out_time)],
                      cmd)
          ELSE Result(FALSE, P1, cmd)

\* AddAudioClipCommand.execute
AddAudioClipCommand_execute(cmd, P) ==
  Result(TRUE, add_audio_clip(P, cmd._clip), cmd)
\* AddAudioClipCommand.undo
AddAudioClipCommand_undo(cmd, P) ==
  LET r == remove_audio_clip(P, cmd._clip) IN Result(r.found, r.P, cmd)

\* DeleteAudioClipCommand.execute
DeleteAudioClipCommand_execute(cmd, P) ==
  LET found == get_audio_clip_by_id(P, cmd._clip_id)
      c == [cmd EXCEPT !._clip = found]
  IN IF ~IsNone(found)
     THEN LET r == remove_audio_clip(P, cmd._clip_id) IN Result(r.found, r.P, c)
     ELSE Result(FALSE, P, c)
\* DeleteAudioClipCommand.undo
DeleteAudioClipCommand_undo(cmd, P) ==
  IF ~IsNone(cmd._clip) THEN Result(TRUE, add_audio_clip(P, Get(cmd._clip)), cmd)
  ELSE Result(FALSE, P, cmd)

\* MoveAudioClipCommand.execute
MoveAudioClipCommand_execute(cmd, P) ==
  LET clip == get_audio_clip_by_id(P, cmd._clip_id)
  IN IF ~IsNone(clip)
     THEN Result(TRUE,
                 [P EXCEPT !.heap[Get(clip)].timeline_start = cmd._new_start],
                 [cmd EXCEPT !._old_start = Some(P.heap[Get(clip)].timeline_start)])
     ELSE Result(FALSE, P, cmd)
\* MoveAudioClipCommand.undo
MoveAudioClipCommand_undo(cmd, P) ==
  LET clip == get_audio_clip_by_id(P, cmd._clip_id)
  IN IF ~IsNone(cmd._old_start) /\ ~IsNone(clip)
     THEN Result(TRUE,
                 [P EXCEPT !.heap[Get(clip)].timeline_start = Get(cmd._old_start)],
                 cmd)
     ELSE Result(FALSE, P, cmd)

\* ChangeAudioVolumeCommand.execute
ChangeAudioVolumeCommand_execute(cmd, P) ==
  LET clip == get_audio_clip_by_id(P, cmd._clip_id)
  IN IF ~IsNone(clip)
     THEN Result(TRUE,
                 [P EXCEPT !.heap[Get(clip)].volume = cmd._new_volume],
                 [cmd EXCEPT !._old_volume = Some(P.heap[Get(clip)].volume)])
     ELSE Result(FALSE, P, cmd)
\* ChangeAudioVolumeCommand.undo
ChangeAudioVolumeCommand_undo(cmd, P) ==
  LET clip == get_audio_clip_by_id(P, cmd._clip_id)
  IN IF ~IsNone(cmd._old_volume) /\ ~IsNone(clip)
     THEN Result(TRUE,
                 [P EXCEPT !.heap[Get(clip)].volume = Get(cmd._old_volume)],
                 cmd)
     ELSE Result(FALSE, P, cmd)

\* AddSubtitleCommand.execute
AddSubtitleCommand_execute(cmd, P) ==
  Result(TRUE, add_subtitle(P, cmd._subtitle), cmd)
\* AddSubtitleCommand.undo
AddSubtitleCommand_undo(cmd, P) ==
  LET r == remove_subtitle(P, cmd._subtitle) IN Result(r.found, r.P, cmd)

\* DeleteSubtitleCommand.execute
DeleteSubtitleCommand_execute(cmd, P) ==
  LET found == get_subtitle_by_id(P, cmd._subtitle_id)
      c == [cmd EXCEPT !._subtitle = found]
  IN IF ~IsNone(found)
     THEN LET r == remove_subtitle(P, cmd._subtitle_id) IN Result(r.found, r.P, c)
     ELSE Result(FALSE, P, c)
\* DeleteSubtitleCommand.undo
DeleteSubtitleCommand_undo(cmd, P) ==
  IF ~IsNone(cmd._subtitle) THEN Result(TRUE, add_subtitle(P, Get(cmd._subtitle)), cmd)
  ELSE Result(FALSE, P, cmd)

\* EditSubtitleCommand.execute
EditSubtitleCommand_execute(cmd, P) ==
  LET subtitle == get_subtitle_by_id(P, cmd._subtitle_id)
  IN IF IsNone(subtitle) THEN Result(FALSE, P, cmd)
     ELSE LET o == P.heap[Get(subtitle)]
          IN Result(TRUE,
                    [P EXCEPT !.heap[Get(subtitle)] =
                       [o EXCEPT !.text = OrKeep(cmd._new_text, @),
                                 !.start_time = OrKeep(cmd._new_start_time, @),
                                 !.duration = OrKeep(cmd._new_duration, @)]],
                    [cmd EXCEPT !._old_text = Some(o.text),
                                !._old_start_time = Some(o.start_time),
                                !._old_duration = Some(o.duration)])
\* EditSubtitleCommand.undo
EditSubtitleCommand_undo(cmd, P) ==
  LET subtitle == get_subtitle_by_id(P, cmd._subtitle_id)
  IN IF IsNone(subtitle) THEN Result(FALSE, P, cmd)
     ELSE Result(TRUE,
                 [P EXCEPT !.heap[Get(subtitle)] =
                    [@ EXCEPT !.text = OrKeep(cmd._old_text, @),
                              !.start_time = OrKeep(cmd._old_start_time, @),
                              !.duration = OrKeep(cmd._old_duration, @)]],
                 cmd)

\* Command.execute, dispatched on the class of the command object.
Command_execute(cmd, P, uuid) ==
  CASE cmd.type = "AddClip" -> AddClipCommand_execute(cmd, P)
    [] cmd.type = "DeleteClip" -> DeleteClipCommand_execute(cmd, P)
    [] cmd.type = "MoveClip" -> MoveClipCommand_execute(cmd, P)
    [] cmd.type = "TrimClip" -> TrimClipCommand_execute(cmd, P)
    [] cmd.type = "SplitClip" -> SplitClipCommand_execute(cmd, P, uuid)
    [] cmd.type = "AddAudioClip" -> AddAudioClipCommand_execute(cmd, P)
    [] cmd.type = "DeleteAudioClip" -> DeleteAudioClipCommand_execute(cmd, P)
    [] cmd.type = "MoveAudioClip" -> MoveAudioClipCommand_execute(cmd, P)
    [] cmd.type = "ChangeAudioVolume" -> ChangeAudioVolumeCommand_execute(cmd, P)
    [] cmd.type = "AddSubtitle" -> AddSubtitleCommand_execute(cmd, P)
    [] cmd.type = "DeleteSubtitle" -> DeleteSubtitleCommand_execute(cmd, P)
    [] cmd.type = "EditSubtitle" -> EditSubtitleCommand_execute(cmd, P)

\* Command.undo
Command_undo(cmd, P) ==
  CASE cmd.type = "AddClip" -> AddClipCommand_undo(cmd, P)
    [] cmd.type = "DeleteClip" -> DeleteClipCommand_undo(cmd, P)
    [] cmd.type = "MoveClip" -> MoveClipCommand_undo(cmd, P)
    [] cmd.type = "TrimClip" -> TrimClipCommand_undo(cmd, P)
    [] cmd.type = "SplitClip" -> SplitClipCommand_undo(cmd, P)
    [] cmd.type = "AddAudioClip" -> AddAudioClipCommand_undo(cmd, P)
    [] cmd.type = "DeleteAudioClip" -> DeleteAudioClipCommand_undo(cmd, P)
    [] cmd.type = "MoveAudioClip" -> MoveAudioClipCommand_undo(cmd, P)
    [] cmd.type = "ChangeAudioVolume" -> ChangeAudioVolumeCommand_undo(cmd, P)
    [] cmd.type = "AddSubtitle" -> AddSubtitleCommand_undo(cmd, P)
    [] cmd.type = "DeleteSubtitle" -> DeleteSubtitleCommand_undo(cmd, P)
    [] cmd.type = "EditSubtitle" -> EditSubtitleCommand_undo(cmd, P)

(***************************************************************************)
(* export/ffmpeg_graph.py: the export graph compiler.  The argument list   *)
(* is a list of tokens: Arg(s) a literal string, Num(n) the text of a      *)
(* number, and Graph(parts) the -filter_complex string, kept as the list   *)
(* of the parts that ";" joins.  A part is a filter node: its input labels,*)
(* its filter, the numbers the filter is given, the file it reads and its  *)
(* output label.  A label is a name and a number ("v", 1 for [v1]; "in:v", *)
(* 0 for [0:v]; "outv", 0 for [outv]).  A path in a scratch directory is   *)
(* the number of the directory.                                            *)
(***************************************************************************)
Arg(s) == [kind |-> "arg", s |-> s, n |-> 0, parts |-> <<>>]
Num(n) == [kind |-> "num", s |-> "", n |-> n, parts |-> <<>>]
Graph(parts) == [kind |-> "graph", s |-> "", n |-> 0, parts |-> parts]
Label(name, n) == [name |-> name, n |-> n]
NoPath == 0
Node(ins, filter, a, b, path, out) ==
  [ins |-> ins, filter |-> filter, a |-> a, b |-> b, path |-> path, out |-> out]

\* ExportSettings with the defaults of Exporter.export
ExportSettings(output_path, width, height, burn_subtitles) ==
  [output_path |-> output_path, width |-> width, height |-> height, fps |-> 30,
   video_codec |-> "libx264", video_preset |-> "medium", video_crf |-> 18,
   audio_codec |-> "aac", audio_bitrate |-> "192k",
   burn_subtitles |-> burn_subtitles]

\* TrimmedClip
TrimmedClip(c) ==
  [source_file |-> c.source_file, in_time |-> c.in_time, out_time |-> c.out_time,
   timeline_start |-> c.timeline_start]

\* A sort by timeline_start that puts a clip before the earlier clips of its key.
RECURSIVE SortByStart_unstable(_)
SortByStart_unstable(clips) ==
  IF clips = <<>> THEN <<>>
  ELSE LET rest == SortByStart_unstable(SubSeq(clips, 1, Len(clips) - 1))
           x == clips[Len(clips)]
           n == Cardinality({i \in 1..Len(rest) :
                               rest[i].timeline_start < x.timeline_start})
       IN SubSeq(rest, 1, n) \o <<x>> \o SubSeq(rest, n + 1, Len(rest))
\* list.sort(key=timeline_start): stable, equal keys keep their order.
RECURSIVE SortByStart(_)
SortByStart(clips) ==
  IF clips = <<>> THEN <<>>
  ELSE LET rest == SortByStart(SubSeq(clips, 1, Len(clips) - 1))
           x == clips[Len(clips)]
           n == Cardinality({i \in 1..Len(rest) :
                               rest[i].timeline_start <= x.timeline_start})
       IN SubSeq(rest, 1, n) \o <<x>> \o SubSeq(rest, n + 1, Len(rest))

\* Every video clip, whether enabled or not.
_collect_video_clips_all(P) ==
  LET all == get_all_clips(P)
  IN SortByStart([i \in 1..Len(all) |-> TrimmedClip(P.heap[all[i]])])
\* FFmpegGraphBuilder._collect_video_clips
_collect_video_clips(P) ==
  LET all == get_all_clips(P)
      on == SelectSeq(all, LAMBDA c : P.heap[c].enabled)
  IN SortByStart([i \in 1..Len(on) |-> TrimmedClip(P.heap[on[i]])])
\* FFmpegGraphBuilder._collect_audio_clips
_collect_audio_clips(P) ==
  LET all == get_all_audio_clips(P)
      on == SelectSeq(all, LAMBDA c : P.heap[c].enabled)
  IN SortByStart([i \in 1..Len(on) |-> TrimmedClip(P.heap[on[i]])])

\* One input for every clip, whether its file has one already or not.
RECURSIVE Inputs_no_dedup(_)
Inputs_no_dedup(clips) ==
  IF clips = <<>> THEN <<>>
  ELSE Append(Inputs_no_dedup(SubSeq(clips, 1, Len(clips) - 1)),
              clips[Len(clips)].source_file)
\* The `input_map` loops: the distinct source files in order of first use.
RECURSIVE Inputs(_)
Inputs(clips) ==
  IF clips = <<>> THEN <<>>
  ELSE LET rest == Inputs(SubSeq(clips, 1, Len(clips) - 1))
           f == clips[Len(clips)].source_file
       IN IF IndexOf(rest, f) > 0 THEN rest ELSE Append(rest, f)
\* input_map[source_file]
InputIndex(inputs, f) == IndexOf(inputs, f) - 1

RECURSIVE InputArgs(_)
InputArgs(inputs) ==
  IF inputs = <<>> THEN <<>>
  ELSE <<Arg("-i"), Arg(Head(inputs))>> \o InputArgs(Tail(inputs))

\* A concat node over the first label only.
Concatenate_first_only(labels, filter, pass, out) ==
  IF Len(labels) > 1
  THEN <<Node(<<labels[1]>>, filter, 1, 0, NoPath, out)>>
  ELSE <<Node(<<labels[1]>>, pass, 0, 0, NoPath, out)>>
\* A concat node whatever the number of clips.
Concatenate_always(labels, filter, pass, out) ==
  <<Node(labels, filter, Len(labels), 0, NoPath, out)>>
\* `if len(video_clips) > 1:` a concat node over the trim labels, else the one
\* trim label through `pass` (null, anull); either way the node writes `out`.
Concatenate(labels, filter, pass, out) ==
  IF Len(labels) > 1
  THEN <<Node(labels, filter, Len(labels), 0, NoPath, out)>>
  ELSE <<Node(<<labels[1]>>, pass, 0, 0, NoPath, out)>>

\* A build_export_command that puts the builder's scratch directory in the command.
build_export_command_uses_temp_dir(self, P, settings, srt_path, srt_exists) ==
  LET video_clips == _collect_video_clips(P)
  IN IF video_clips = <<>>
     THEN [raised |-> TRUE, error |-> "No video clips to export", cmd |-> <<>>,
           temp_files |-> <<>>]
     ELSE [raised |-> FALSE, error |-> "",
           cmd |-> <<Arg("ffmpeg"), Arg("-y"), Arg("-i"), Arg(video_clips[1].source_file),
                     Num(self._temp_dir), Arg(settings.output_path)>>,
           temp_files |-> <<>>]
\* FFmpegGraphBuilder.build_export_command: self is the builder, srt_path the
\* subtitle file (None or a path) and srt_exists what os.path.exists finds.
\* [raised, error, cmd, temp_files]
build_export_command(self, P, settings, srt_path, srt_exists) ==
  LET video_clips == _collect_video_clips(P)
      audio_clips == _collect_audio_clips(P)
  IN IF video_clips = <<>>
     THEN [raised |-> TRUE, error |-> "No video clips to export", cmd |-> <<>>,
           temp_files |-> <<>>]
     ELSE
       LET inputs == Inputs(video_clips \o audio_clips)
           n == Len(video_clips)
           trims == [i \in 1..n |->
                       Node(<<Label("in:v", InputIndex(inputs, video_clips[i].source_file))>>,
                            "trim,setpts", video_clips[i].in_time,
                            video_clips[i].out_time, NoPath, Label("v", i - 1))]
           concat_inputs == [i \in 1..n |-> Label("v", i - 1)]
           video == Concatenate(concat_inputs, "concat:v=1:a=0", "null", Label("outv", 0))
           atrims == [i \in 1..n |->
                        Node(<<Label("in:a", InputIndex(inputs, video_clips[i].source_file))>>,
                             "atrim,asetpts", video_clips[i].in_time,
                             video_clips[i].out_time, NoPath, Label("a", i - 1))]
           audio_concat_inputs == [i \in 1..n |-> Label("a", i - 1)]
           audio == Concatenate(audio_concat_inputs, "concat:v=0:a=1", "anull",
                                Label("outa", 0))
           scaling == settings.width # 0 \/ settings.height # 0
           scale == IF scaling
                    THEN <<Node(<<Label("outv", 0)>>, "scale,pad", settings.width,
                                settings.height, NoPath, Label("scaled", 0))>>
                    ELSE <<>>
           final_video == IF scaling THEN Label("scaled", 0) ELSE Label("outv", 0)
           subs == IF ~IsNone(srt_path) /\ settings.burn_subtitles /\ srt_exists
                   THEN <<Node(<<final_video>>, "subtitles", 0, 0, Get(srt_path),
                               Label("final", 0))>>
                   ELSE <<Node(<<final_video>>, "null", 0, 0, NoPath,
                               Label("final", 0))>>
           filter_parts == trims \o video \o atrims \o audio \o scale \o subs
       IN [raised |-> FALSE, error |-> "",
           cmd |-> <<Arg("ffmpeg"), Arg("-y")>> \o InputArgs(inputs)
                   \o <<Arg("-filter_complex"), Graph(filter_parts),
                        Arg("-map"), Arg("[final]"), Arg("-map"), Arg("[outa]"),
                        Arg("-c:v"), Arg(settings.video_codec),
                        Arg("-preset"), Arg(settings.video_preset),
                        Arg("-crf"), Num(settings.video_crf),
                        Arg("-c:a"), Arg(settings.audio_codec),
                        Arg("-b:a"), Arg(settings.audio_bitrate),
                        Arg("-r"), Num(settings.fps),
                        Arg(settings.output_path)>>,
           temp_files |-> <<>>]

(***************************************************************************)
(* State.  `heap`, `video_tracks`, `audio_tracks`, `subtitles` are the     *)
(* Project; `_undo_stack` and `_redo_stack` are the CommandHistory;        *)
(* `next_id` and `next_oid` number the uuid4 ids and the command objects.  *)
(* `again` counts the calls of execute on a command object already held.   *)
(* `last`, `trail`, `undo_pre` and `evicted` observe the run and are read  *)
(* by no operation: `last` is the latest call on the history (the class of *)
(* the command it ran, whether its target was in the project, what it      *)
(* returned and the state it started from), `trail` the latest             *)
(* max_history + 2 calls that returned success, each with the project it   *)
(* started from, `undo_pre[i]` the project as it was when the command now  *)
(* at `_undo_stack[i]` was last executed, and `evicted` the command the    *)
(* history limit dropped last, with the project as its execute left it.    *)
(***************************************************************************)
VARIABLES heap, video_tracks, audio_tracks, subtitles,
          _undo_stack, _redo_stack, _max_history, next_id, next_oid,
          again, last, trail, undo_pre, evicted,
          _worker, _process, scratch, next_dir, emitted, compiles, exports,
          cancel_at, exported, pending, notified,
          meta, disk, saved, io, next_pid

edit_vars == <<heap, video_tracks, audio_tracks, subtitles,
               _undo_stack, _redo_stack, _max_history, next_id, next_oid, again,
               last, trail, undo_pre, evicted>>
export_vars == <<_worker, _process, scratch, next_dir, emitted, compiles, exports,
                 cancel_at, exported, pending, notified>>
io_vars == <<meta, disk, saved, io, next_pid>>
vars == <<edit_vars, export_vars, io_vars>>

project ==
  [heap |-> heap, video_tracks |-> video_tracks, audio_tracks |-> audio_tracks,
   subtitles |-> subtitles]

\* The project by value: every track as the list of its clips' fields.
Entity(P, id) == [id |-> id, fields |-> P.heap[id]]
View(P) ==
  [video_tracks |-> [t \in 1..Len(P.video_tracks) |->
                       [i \in 1..Len(P.video_tracks[t]) |-> Entity(P, P.video_tracks[t][i])]],
   audio_tracks |-> [t \in 1..Len(P.audio_tracks) |->
                       [i \in 1..Len(P.audio_tracks[t]) |-> Entity(P, P.audio_tracks[t][i])]],
   subtitles |-> [i \in 1..Len(P.subtitles) |-> Entity(P, P.subtitles[i])]]

\* The ids a command object holds a reference to.
CmdRefs(cmd) ==
  CASE cmd.type \in {"AddClip", "AddAudioClip"} -> {cmd._clip}
    [] cmd.type \in {"DeleteClip", "DeleteAudioClip"} -> Range(cmd._clip)
    [] cmd.type = "SplitClip" -> Range(cmd._new_clip)
    [] cmd.type = "AddSubtitle" -> {cmd._subtitle}
    [] cmd.type = "DeleteSubtitle" -> Range(cmd._subtitle)
    [] OTHER -> {}

\* The objects still referred to by the project or by a recorded command.
Live(P, undo, redo) ==
  LET refs == Range(get_all_clips(P)) \cup Range(get_all_audio_clips(P))
              \cup Range(P.subtitles)
              \cup UNION {CmdRefs(undo[i]) : i \in 1..Len(undo)}
              \cup UNION {CmdRefs(redo[i]) : i \in 1..Len(redo)}
  IN [i \in DOMAIN P.heap \cap refs |-> P.heap[i]]

\* A command object is one object wherever it is listed.
SyncObj(stack, cmd) ==
  [i \in 1..Len(stack) |-> IF stack[i].oid = cmd.oid THEN cmd ELSE stack[i]]

\* undo() and redo() return None when their stack is empty: no command.
NoCommand == [type |-> "none", oid |-> 0]
Nothing(P, undo, redo) ==
  [ok |-> FALSE, P |-> P, cmd |-> NoCommand, undo |-> undo, redo |-> redo]

\* A limit that lets the undo stack keep one command more.
LimitHistory_one_more(stack) ==
  IF Len(stack) > _max_history + 1 THEN Tail(stack) ELSE stack
\* The limit taken from the top of the stack (pop() for pop(0)).
LimitHistory_pop_top(stack) ==
  IF Len(stack) > _max_history THEN SubSeq(stack, 1, Len(stack) - 1) ELSE stack
\* `if len(self._undo_stack) > self._max_history: self._undo_stack.pop(0)`
LimitHistory(stack) == IF Len(stack) > _max_history THEN Tail(stack) ELSE stack

\* CommandHistory.execute that keeps the redo stack on success.
CommandHistory_execute_keeps_redo(command, P, undo, redo, uuid) ==
  LET r == Command_execute(command, P, uuid)
      u == SyncObj(undo, r.cmd)
      d == SyncObj(redo, r.cmd)
  IN IF r.ok
     THEN [ok |-> TRUE, P |-> r.P, cmd |-> r.cmd,
           undo |-> LimitHistory(Append(u, r.cmd)), redo |-> d]
     ELSE [ok |-> FALSE, P |-> r.P, cmd |-> r.cmd, undo |-> u, redo |-> d]
\* CommandHistory.execute that clears the redo stack before it runs the command.
CommandHistory_execute_clears_first(command, P, undo, redo, uuid) ==
  LET r == Command_execute(command, P, uuid)
      u == SyncObj(undo, r.cmd)
  IN IF r.ok
     THEN [ok |-> TRUE, P |-> r.P, cmd |-> r.cmd,
           undo |-> LimitHistory(Append(u, r.cmd)), redo |-> <<>>]
     ELSE [ok |-> FALSE, P |-> r.P, cmd |-> r.cmd, undo |-> u, redo |-> <<>>]
\* CommandHistory.execute: [ok, P, undo, redo]
CommandHistory_execute(command, P, undo, redo, uuid) ==
  LET r == Command_execute(command, P, uuid)
      u == SyncObj(undo, r.cmd)
      d == SyncObj(redo, r.cmd)
  IN IF r.ok
     THEN [ok |-> TRUE, P |-> r.P, cmd |-> r.cmd,
           undo |-> LimitHistory(Append(u, r.cmd)), redo |-> <<>>]
     ELSE [ok |-> FALSE, P |-> r.P, cmd |-> r.cmd, undo |-> u, redo |-> d]

\* CommandHistory.undo that drops a command whose undo() failed.
CommandHistory_undo_drops(P, undo, redo) ==
  LET command == undo[Len(undo)]
      popped == SubSeq(undo, 1, Len(undo) - 1)
      r == Command_undo(command, P)
  IN IF undo = <<>> THEN Nothing(P, undo, redo)
     ELSE IF r.ok
     THEN [ok |-> TRUE, P |-> r.P, cmd |-> r.cmd,
           undo |-> popped, redo |-> Append(redo, r.cmd)]
     ELSE [ok |-> FALSE, P |-> r.P, cmd |-> r.cmd, undo |-> popped, redo |-> redo]
\* CommandHistory.undo
CommandHistory_undo(P, undo, redo) ==
  LET command == undo[Len(undo)]
      popped == SubSeq(undo, 1, Len(undo) - 1)
      r == Command_undo(command, P)
  IN IF undo = <<>> THEN Nothing(P, undo, redo)
     ELSE IF r.ok
     THEN [ok |-> TRUE, P |-> r.P, cmd |-> r.cmd,
           undo |-> popped, redo |-> Append(redo, r.cmd)]
     ELSE [ok |-> FALSE, P |-> r.P, cmd |-> r.cmd,
           undo |-> Append(popped, r.cmd), redo |-> redo]

\* CommandHistory.redo that clears the rest of the redo stack on success.
CommandHistory_redo_clears(P, undo, redo, uuid) ==
  LET command == redo[Len(redo)]
      popped == SubSeq(redo, 1, Len(redo) - 1)
      r == Command_execute(command, P, uuid)
  IN IF redo = <<>> THEN Nothing(P, undo, redo)
     ELSE IF r.ok
     THEN [ok |-> TRUE, P |-> r.P, cmd |-> r.cmd,
           undo |-> Append(SyncObj(undo, r.cmd), r.cmd), redo |-> <<>>]
     ELSE [ok |-> FALSE, P |-> r.P, cmd |-> r.cmd,
           undo |-> SyncObj(undo, r.cmd), redo |-> Append(SyncObj(popped, r.cmd), r.cmd)]
\* CommandHistory.redo
CommandHistory_redo(P, undo, redo, uuid) ==
  LET command == redo[Len(redo)]
      popped == SubSeq(redo, 1, Len(redo) - 1)
      r == Command_execute(command, P, uuid)
  IN IF redo = <<>> THEN Nothing(P, undo, redo)
     ELSE IF r.ok
     THEN [ok |-> TRUE, P |-> r.P, cmd |-> r.cmd,
           undo |-> Append(SyncObj(undo, r.cmd), r.cmd), redo |-> SyncObj(popped, r.cmd)]
     ELSE [ok |-> FALSE, P |-> r.P, cmd |-> r.cmd,
           undo |-> SyncObj(undo, r.cmd), redo |-> Append(SyncObj(popped, r.cmd), r.cmd)]

\* CommandHistory.can_undo / can_redo
can_undo == Len(_undo_stack) > 0
can_redo == Len(_redo_stack) > 0

(***************************************************************************)
(* The commands the caller builds (ui/main_window.py builds them from the  *)
(* widgets' signals): every class, over every id, known or not.            *)
(***************************************************************************)
Ids == 1..MaxIds

ClipInputs == {Clip("a.mp4", 0, 2, 0, 0), Clip("b.mp4", 1, 3, 0, 1)}
AudioClipInputs == {AudioClip("m.mp3", 0, 2, 0, 1, 1)}
SubtitleInputs == {Subtitle("hi", 0, 3)}
MoveInputs == {-1, 2}
TrimInputs == {<<Some(2), None, None>>, <<None, Some(1), Some(1)>>}
SplitInputs == {0, 1, 2}
VolumeInputs == {2}
EditInputs == {<<Some("yo"), None, Some(1)>>}

AddClipCommand(oid, clip) == [type |-> "AddClip", oid |-> oid, _clip |-> clip]
DeleteClipCommand(oid, clip_id) ==
  [type |-> "DeleteClip", oid |-> oid, _clip_id |-> clip_id, _clip |-> None]
MoveClipCommand(oid, clip_id, new_start) ==
  [type |-> "MoveClip", oid |-> oid, _clip_id |-> clip_id,
   _new_start |-> new_start, _old_start |-> None]
TrimClipCommand(oid, clip_id, new_in_time, new_out_time, new_timeline_start) ==
  [type |-> "TrimClip", oid |-> oid, _clip_id |-> clip_id,
   _new_in_time |-> new_in_time, _new_out_time |-> new_out_time,
   _new_timeline_start |-> new_timeline_start,
   _old_in_time |-> None, _old_out_time |-> None, _old_timeline_start |-> None]
SplitClipCommand(oid, clip_id, split_time) ==
  [type |-> "SplitClip", oid |-> oid, _clip_id |-> clip_id,
   _split_time |-> split_time, _new_clip |-> None, _old_out_time |-> None]
AddAudioClipCommand(oid, clip) == [type |-> "AddAudioClip", oid |-> oid, _clip |-> clip]
DeleteAudioClipCommand(oid, clip_id) ==
  [type |-> "DeleteAudioClip", oid |-> oid, _clip_id |-> clip_id, _clip |-> None]
MoveAudioClipCommand(oid, clip_id, new_start) ==
  [type |-> "MoveAudioClip", oid |-> oid, _clip_id |-> clip_id,
   _new_start |-> new_start, _old_start |-> None]
ChangeAudioVolumeCommand(oid, clip_id, new_volume) ==
  [type |-> "ChangeAudioVolume", oid |-> oid, _clip_id |-> clip_id,
   _new_volume |-> new_volume, _old_volume |-> None]
AddSubtitleCommand(oid, subtitle) ==
  [type |-> "AddSubtitle", oid |-> oid, _subtitle |-> subtitle]
DeleteSubtitleCommand(oid, subtitle_id) ==
  [type |-> "DeleteSubtitle", oid |-> oid, _subtitle_id |-> subtitle_id,
   _subtitle |-> None]
EditSubtitleCommand(oid, subtitle_id, new_text, new_start_time, new_duration) ==
  [type |-> "EditSubtitle", oid |-> oid, _subtitle_id |-> subtitle_id,
   _new_text |-> new_text, _new_start_time |-> new_start_time,
   _new_duration |-> new_duration,
   _old_text |-> None, _old_start_time |-> None, _old_duration |-> None]

\* The commands on entities already made.
TargetCommands(oid) ==
  {DeleteClipCommand(oid, i) : i \in Ids}
  \cup {MoveClipCommand(oid, i, t) : i \in Ids, t \in MoveInputs}
  \cup {TrimClipCommand(oid, i, x[1], x[2], x[3]) : i \in Ids, x \in TrimInputs}
  \cup {SplitClipCommand(oid, i, t) : i \in Ids, t \in SplitInputs}
  \cup {DeleteAudioClipCommand(oid, i) : i \in Ids}
  \cup {MoveAudioClipCommand(oid, i, t) : i \in Ids, t \in MoveInputs}
  \cup {ChangeAudioVolumeCommand(oid, i, v) : i \in Ids, v \in VolumeInputs}
  \cup {DeleteSubtitleCommand(oid, i) : i \in Ids}
  \cup {EditSubtitleCommand(oid, i, x[1], x[2], x[3]) : i \in Ids, x \in EditInputs}

\* The Add commands: [cmd, obj], the command and the new object it holds.
AddCommands(oid, uuid) ==
  {[cmd |-> AddClipCommand(oid, uuid), obj |-> c] : c \in ClipInputs}
  \cup {[cmd |-> AddAudioClipCommand(oid, uuid), obj |-> c] : c \in AudioClipInputs}
  \cup {[cmd |-> AddSubtitleCommand(oid, uuid), obj |-> s] : s \in SubtitleInputs}

\* The id a command was built for.
Target(cmd) ==
  CASE cmd.type \in {"AddClip", "AddAudioClip"} -> cmd._clip
    [] cmd.type = "AddSubtitle" -> cmd._subtitle
    [] cmd.type \in {"DeleteSubtitle", "EditSubtitle"} -> cmd._subtitle_id
    [] OTHER -> cmd._clip_id
\* Whether the lookup the command's class makes finds its target.
Found(cmd, P) ==
  CASE cmd.type \in {"AddClip", "AddAudioClip", "AddSubtitle"} -> TRUE
    [] cmd.type = "none" -> FALSE
    [] cmd.type \in {"DeleteClip", "MoveClip", "TrimClip", "SplitClip"} ->
         ~IsNone(get_clip_by_id(P, Target(cmd)))
    [] cmd.type \in {"DeleteAudioClip", "MoveAudioClip", "ChangeAudioVolume"} ->
         ~IsNone(get_audio_clip_by_id(P, Target(cmd)))
    [] OTHER -> ~IsNone(get_subtitle_by_id(P, Target(cmd)))

NoCall == [op |-> "none", ok |-> FALSE, type |-> "none"]
Before == [view |-> View(project), undo |-> _undo_stack, redo |-> _redo_stack]
Call(op, ok, cmd) ==
  [op |-> op, ok |-> ok, type |-> cmd.type, found |-> Found(cmd, project),
   before |-> Before]
\* What `trail` keeps of a call that succeeded.
Brief(op, cmd) ==
  [op |-> op, type |-> cmd.type, oid |-> cmd.oid, view |-> View(project)]
KeepLatest(s) == IF Len(s) > _max_history + 2 THEN Tail(s) ELSE s

(***************************************************************************)
(* export/exporter.py: Exporter on the caller's thread, ExportWorker.run   *)
(* on its own thread, and the ffmpeg process.  _worker.pc is the place of  *)
(* run(); progress is in thousandths; a scratch directory is its number.   *)
(* `exported` observes the run: the project as it was when the export()    *)
(* that started the worker was called.                                     *)
(***************************************************************************)
Status(msg) == [sig |-> "status", ok |-> FALSE, s |-> msg, n |-> 0]
Progress(n) == [sig |-> "progress", ok |-> FALSE, s |-> "", n |-> n]
Finished(ok, msg) == [sig |-> "finished", ok |-> ok, s |-> msg, n |-> 0]

\* One line of the process's stdout.
Line(key, s, n) == [key |-> key, s |-> s, n |-> n]

NoDir == 0
\* ExportWorker.__init__
ExportWorker(settings, pc) ==
  [pc |-> pc, settings |-> settings, _cancelled |-> FALSE, temp_dir |-> NoDir,
   srt_path |-> None, srt_exists |-> FALSE, builder |-> [_temp_dir |-> NoDir],
   cmd |-> <<>>, total_duration |-> 0]
\* Exporter.__init__: self._worker = None
NoWorker == ExportWorker(ExportSettings("", 0, 0, FALSE), "none")
\* ExportWorker._process = None
\* stderr is the number of characters the process has written to its stderr.
NoProcess == [state |-> "none", args |-> <<>>, stdout |-> <<>>, stderr |-> 0,
              returncode |-> 0, blocked |-> FALSE]

\* QThread.isRunning
isRunning(w) == w.pc \notin {"none", "done"}

\* stderr[:500], as the number of characters kept
stderr_head(stderr) == Min({stderr, 500})

\* run() after wait(): a return code of 0 gives progress 1.0, the status and
\* finished(True, ""); any other gives finished(False, "FFmpeg error: " and
\* the head of stderr), n being the number of stderr characters in the message.
run_result_status_last(returncode, stderr) ==
  IF returncode = 0
  THEN <<Progress(1000), Finished(TRUE, ""), Status("Export complete!")>>
  ELSE <<[Finished(FALSE, "FFmpeg error: ") EXCEPT !.n = stderr_head(stderr)]>>
run_result(returncode, stderr) ==
  IF returncode = 0
  THEN <<Progress(1000), Status("Export complete!"), Finished(TRUE, "")>>
  ELSE <<[Finished(FALSE, "FFmpeg error: ") EXCEPT !.n = stderr_head(stderr)]>>

\* The finished signals a step of run() has emitted, as the events queued for
\* the thread of the Exporter. Each is kept with the worker that emitted it
\* (from, cancelled) and with what wait() returned to it, if it came to wait.
Posted(w, proc, before, after) ==
  LET new == SubSeq(after, Len(before) + 1, Len(after))
      fin == SelectSeq(new, LAMBDA e : e.sig = "finished")
  IN [i \in 1..Len(fin) |->
        [ok |-> fin[i].ok, s |-> fin[i].s, n |-> fin[i].n,
         from |-> w.settings.output_path, cancelled |-> w._cancelled,
         exit |-> IF w.pc = "wait" THEN Some(proc.returncode) ELSE None,
         stderr |-> proc.stderr]]

\* Exporter._on_finished: what Exporter.finished carries.
Exporter_on_finished(worker, success, message, n) ==
  IF success THEN [ok |-> TRUE, s |-> worker.settings.output_path, n |-> 0]
  ELSE [ok |-> FALSE, s |-> message, n |-> n]

SettingsInputs ==
  {ExportSettings("out.mp4", 1920, 1080, TRUE), ExportSettings("b.mp4", 0, 0, FALSE)}
\* How much ffmpeg may have written to its stderr when it fails.
StderrInputs == {20, 501}
\* What ffmpeg may write to its stdout.
StdoutInputs ==
  {<<Line("out_time_ms", "", 1000000), Line("progress", "continue", 0),
     Line("out_time_ms", "", 9000000), Line("progress", "end", 0)>>,
   <<Line("out_time_ms", "N/A", 0), Line("out_time_ms", "", -9000000)>>}

\* MainWindow.__init__: Project("Untitled"), nothing saved or opened yet.
NoIo == [op |-> "none", ok |-> FALSE]
InitFiles ==
  /\ meta = NewMeta(1, "Untitled")
  /\ disk = None
  /\ saved = None
  /\ io = NoIo
  /\ next_pid = 2

InitExporter ==
  /\ _worker = NoWorker
  /\ _process = NoProcess
  /\ scratch = {}
  /\ next_dir = 1
  /\ emitted = <<>>
  /\ compiles = <<>>
  /\ exports = 0
  /\ cancel_at = "never"
  /\ exported = None
  /\ pending = <<>>
  /\ notified = <<>>

Init ==
  /\ heap = EmptyProject.heap
  /\ video_tracks = EmptyProject.video_tracks
  /\ audio_tracks = EmptyProject.audio_tracks
  /\ subtitles = EmptyProject.subtitles
  /\ _undo_stack = <<>>
  /\ _redo_stack = <<>>
  /\ next_id = 1
  /\ next_oid = 1
  /\ last = NoCall
  /\ trail = <<>>
  /\ undo_pre = <<>>
  /\ again = 0
  /\ _max_history = max_history
  /\ evicted = None
  /\ InitExporter
  /\ InitFiles

\* The effect of one call on the history, h its result, used whether it drew a uuid.
Apply(op, h, used, pre) ==
  /\ heap' = Live(h.P, h.undo, h.redo)
  /\ video_tracks' = h.P.video_tracks
  /\ audio_tracks' = h.P.audio_tracks
  /\ subtitles' = h.P.subtitles
  /\ _undo_stack' = h.undo
  /\ _redo_stack' = h.redo
  /\ next_id' = IF used THEN next_id + 1 ELSE next_id
  /\ last' = Call(op, h.ok, h.cmd)
  /\ trail' = IF h.ok THEN KeepLatest(Append(trail, Brief(op, h.cmd))) ELSE trail
  /\ undo_pre' = pre
  /\ UNCHANGED <<_max_history, export_vars, io_vars>>

\* undo_pre after execute pushed a command: the limit drops both bottoms.
Pushed(pre, stack) == LET p == Append(pre, View(project))
                      IN IF Len(p) > Len(stack) THEN Tail(p) ELSE p
\* evicted after execute: the bottom command, if the limit dropped it.
Dropped(h) ==
  IF h.ok /\ Len(_undo_stack) + 1 > Len(h.undo)
  THEN Some([oid |-> _undo_stack[1].oid, type |-> _undo_stack[1].type,
             after |-> Append(undo_pre, View(project))[2]])
  ELSE evicted

\* history.execute(cmd) with a command on existing ids.
Execute ==
  /\ next_oid <= MaxCmds
  /\ \E cmd \in TargetCommands(next_oid) :
       LET h == CommandHistory_execute(cmd, project, _undo_stack, _redo_stack, next_id)
           used == h.ok /\ cmd.type = "SplitClip"
       IN /\ used => next_id <= MaxIds + 1
          /\ Apply("execute", h, used, IF h.ok THEN Pushed(undo_pre, h.undo) ELSE undo_pre)
          /\ next_oid' = IF h.ok THEN next_oid + 1 ELSE next_oid
          /\ evicted' = Dropped(h)
  /\ UNCHANGED again

\* The caller makes an entity (create_new) and history.execute(Add...Command).
ExecuteAdd ==
  /\ next_oid <= MaxCmds
  /\ next_id <= MaxIds
  /\ \E a \in AddCommands(next_oid, next_id) :
       LET h == CommandHistory_execute(a.cmd, Alloc(project, next_id, a.obj),
                                       _undo_stack, _redo_stack, next_id)
       IN /\ Apply("execute", h, TRUE, IF h.ok THEN Pushed(undo_pre, h.undo) ELSE undo_pre)
          /\ next_oid' = IF h.ok THEN next_oid + 1 ELSE next_oid
          /\ evicted' = Dropped(h)
  /\ UNCHANGED again

\* history.undo()
Undo ==
  /\ LET h == CommandHistory_undo(project, _undo_stack, _redo_stack)
     IN Apply("undo", h, FALSE,
              IF h.ok THEN SubSeq(undo_pre, 1, Len(undo_pre) - 1) ELSE undo_pre)
  /\ UNCHANGED <<next_oid, again, evicted>>

\* history.redo()
Redo ==
  /\ LET h == CommandHistory_redo(project, _undo_stack, _redo_stack, next_id)
         used == h.ok /\ h.cmd.type = "SplitClip"
     IN /\ used => next_id <= MaxIds + 1
        /\ Apply("redo", h, used, IF h.ok THEN Append(undo_pre, View(project)) ELSE undo_pre)
  /\ UNCHANGED <<next_oid, again, evicted>>

\* history.execute(cmd) with a command object the history already holds.
ExecuteAgain ==
  /\ again < MaxAgain
  /\ \E cmd \in Range(_undo_stack) \cup Range(_redo_stack) :
       LET h == CommandHistory_execute(cmd, project, _undo_stack, _redo_stack, next_id)
           used == h.ok /\ cmd.type = "SplitClip"
       IN /\ used => next_id <= MaxIds
          /\ Apply("execute", h, used, IF h.ok THEN Pushed(undo_pre, h.undo) ELSE undo_pre)
          /\ evicted' = Dropped(h)
  /\ again' = again + 1
  /\ UNCHANGED next_oid

Next == Execute \/ ExecuteAdd \/ Undo \/ Redo

\* Every command object is handed to execute once.
Spec == Init /\ [][Next]_vars

NextReuse == Next \/ ExecuteAgain

\* The caller may hand execute a command object again.
SpecReuse == Init /\ [][NextReuse]_vars

\* Exporter.export that starts a worker whether one is running or not.
Exporter_export_always(worker, settings) ==
  [started |-> TRUE, worker |-> ExportWorker(settings, "prepare")]
\* Exporter.export: [started, worker]
Exporter_export(worker, settings) ==
  IF isRunning(worker)
  THEN [started |-> FALSE, worker |-> worker]
  ELSE [started |-> TRUE, worker |-> ExportWorker(settings, "prepare")]

\* exporter.export(project, path): `exports` counts the calls.
Export ==
  /\ exports < MaxExports
  /\ \E settings \in SettingsInputs :
       LET r == Exporter_export(_worker, settings)
       IN /\ _worker' = r.worker
          /\ _process' = IF r.started THEN NoProcess ELSE _process
          /\ emitted' = IF r.started THEN <<>> ELSE emitted
          /\ cancel_at' = IF r.started THEN "never" ELSE cancel_at
          /\ exported' = IF r.started THEN Some(View(project)) ELSE exported
  /\ exports' = exports + 1
  /\ UNCHANGED <<edit_vars, io_vars, pending, notified, scratch, next_dir, compiles>>

\* Exporter.cancel, ExportWorker.cancel
Cancel ==
  /\ _worker.pc # "none"
  /\ _worker' = [_worker EXCEPT !._cancelled = TRUE]
  /\ IF _process.state = "running"
     THEN \E rest \in {_process.stdout, <<>>} :
            _process' = [_process EXCEPT !.state = "terminated", !.returncode = -15,
                                         !.stdout = rest]
     ELSE UNCHANGED _process
  /\ cancel_at' = IF cancel_at = "never" THEN _worker.pc ELSE cancel_at
  /\ UNCHANGED <<edit_vars, io_vars, pending, notified, exported, scratch, next_dir,
                 emitted, compiles, exports>>

\* run(): the scratch directory and the subtitle file.
RunPrepare ==
  /\ _worker.pc = "prepare"
  /\ \E written \in BOOLEAN :
       _worker' = [_worker EXCEPT
                     !.pc = "build",
                     !.temp_dir = next_dir,
                     !.srt_path = IF subtitles # <<>> THEN Some(next_dir) ELSE None,
                     !.srt_exists = subtitles # <<>> /\ written]
  /\ scratch' = scratch \cup {next_dir}
  /\ next_dir' = next_dir + 1
  /\ emitted' = emitted \o <<Status("Preparing export..."), Progress(0)>>
                \o (IF subtitles # <<>> THEN <<Status("Generating subtitles...")>>
                    ELSE <<>>)
  /\ UNCHANGED <<edit_vars, io_vars, pending, notified, cancel_at, exported, _process, compiles, exports>>

\* run(): the builder and the compilation.
RunBuild ==
  /\ _worker.pc = "build"
  /\ LET builder == [_temp_dir |-> next_dir]
         r == build_export_command(builder, project, _worker.settings,
                                   _worker.srt_path, _worker.srt_exists)
     IN /\ compiles' = Append(compiles,
                              [view |-> View(project), settings |-> _worker.settings,
                               srt_path |-> _worker.srt_path,
                               srt_exists |-> _worker.srt_exists,
                               builder |-> builder, raised |-> r.raised,
                               cmd |-> r.cmd])
        /\ IF r.raised
           THEN /\ _worker' = [_worker EXCEPT !.pc = "done", !.builder = builder]
                /\ emitted' = emitted \o <<Status("Building export graph..."),
                                           Finished(FALSE, r.error)>>
           ELSE /\ _worker' = [_worker EXCEPT !.pc = "duration", !.builder = builder,
                                              !.cmd = r.cmd]
                /\ emitted' = emitted \o <<Status("Building export graph...")>>
  /\ scratch' = scratch \cup {next_dir}
  /\ next_dir' = next_dir + 1
  /\ pending' = pending \o Posted(_worker, _process, emitted, emitted')
  /\ UNCHANGED <<edit_vars, io_vars, notified, cancel_at, exported, _process, exports>>

\* run(): total_duration = self.project.duration, read after the compilation.
RunDuration ==
  /\ _worker.pc = "duration"
  /\ _worker' = [_worker EXCEPT !.pc = "spawn",
                                !.total_duration = project_duration(project)]
  /\ emitted' = emitted \o <<Status("Encoding video..."), Progress(50)>>
  /\ UNCHANGED <<edit_vars, io_vars, pending, notified, cancel_at, exported, _process,
                 scratch, next_dir, compiles, exports>>

\* run(): get_ffmpeg_path and subprocess.Popen.
RunSpawn ==
  /\ _worker.pc = "spawn"
  /\ \/ /\ \E out \in StdoutInputs :
             _process' = [state |-> "running",
                          args |-> <<Arg("ffmpeg"), Arg("-progress"), Arg("pipe:1")>>
                                   \o Tail(_worker.cmd),
                          stdout |-> out, stderr |-> 0, returncode |-> 0,
                          blocked |-> FALSE]
        /\ _worker' = [_worker EXCEPT !.pc = "check"]
        /\ UNCHANGED emitted
     \/ /\ _worker' = [_worker EXCEPT !.pc = "done"]
        /\ emitted' = Append(emitted, Finished(FALSE, "FFmpeg not found"))
        /\ UNCHANGED _process
  /\ pending' = pending \o Posted(_worker, _process, emitted, emitted')
  /\ UNCHANGED <<edit_vars, io_vars, notified, cancel_at, exported, scratch, next_dir, compiles,
                 exports>>

\* run(): the head of the loop.
RunCheck ==
  /\ _worker.pc = "check"
  /\ IF _worker._cancelled
     THEN /\ _process' = IF _process.state = "running"
                         THEN [_process EXCEPT !.state = "terminated",
                                               !.returncode = -15]
                         ELSE _process
          /\ emitted' = Append(emitted, Finished(FALSE, "Export cancelled"))
          /\ _worker' = [_worker EXCEPT !.pc = "done"]
     ELSE /\ _worker' = [_worker EXCEPT !.pc = "read"]
          /\ UNCHANGED <<_process, emitted>>
  /\ pending' = pending \o Posted(_worker, _process, emitted, emitted')
  /\ UNCHANGED <<edit_vars, io_vars, notified, cancel_at, exported, scratch, next_dir, compiles,
                 exports>>

\* run(): readline and the parsing of the line.
RunRead ==
  /\ _worker.pc = "read"
  /\ _process.stdout # <<>> \/ _process.state # "running"
  /\ IF _process.stdout = <<>>
     THEN /\ _worker' = [_worker EXCEPT !.pc = "wait"]
          /\ UNCHANGED <<_process, emitted>>
     ELSE LET line == Head(_process.stdout)
          IN /\ _process' = [_process EXCEPT !.stdout = Tail(_process.stdout)]
             /\ _worker' = [_worker EXCEPT
                              !.pc = IF line.key = "progress" /\ line.s = "end"
                                     THEN "wait" ELSE "check"]
             /\ emitted' =
                  IF line.key = "out_time_ms" /\ line.s = "" /\ _worker.total_duration > 0
                  THEN Append(emitted,
                         Progress(Min({950, 50 + (line.n * 9)
                                             \div (_worker.total_duration * 10000)})))
                  ELSE emitted
  /\ UNCHANGED <<edit_vars, io_vars, pending, notified, cancel_at, exported, scratch, next_dir,
                 compiles, exports>>

\* run(): wait, builder.cleanup and the result.
RunWait ==
  /\ _worker.pc = "wait"
  /\ _process.state # "running"
  /\ scratch' = scratch \ {_worker.builder._temp_dir}
  /\ emitted' = emitted \o run_result(_process.returncode, _process.stderr)
  /\ _worker' = [_worker EXCEPT !.pc = "done"]
  /\ pending' = pending \o Posted(_worker, _process, emitted, emitted')
  /\ UNCHANGED <<edit_vars, io_vars, notified, cancel_at, exported, _process, next_dir, compiles,
                 exports>>

\* The ffmpeg process ends by itself.
ProcessExit ==
  /\ _process.state = "running" /\ ~_process.blocked
  /\ \/ _process' = [_process EXCEPT !.state = "exited", !.returncode = 0]
     \/ \E n \in StderrInputs :
          _process' = [_process EXCEPT !.state = "exited", !.returncode = 1,
                                       !.stderr = n]
  /\ UNCHANGED <<edit_vars, io_vars, pending, notified, cancel_at, exported, _worker, scratch, next_dir, emitted, compiles, exports>>

\* Popen(stderr=PIPE) and no read of stderr while the process runs: a process
\* that writes more to its stderr than the pipe holds stops in that write.  It
\* neither ends nor closes its stdout until it is terminated.
ProcessBlocks ==
  /\ _process.state = "running" /\ ~_process.blocked
  /\ _process' = [_process EXCEPT !.blocked = TRUE]
  /\ UNCHANGED <<edit_vars, io_vars, pending, notified, cancel_at, exported, _worker,
                 scratch, next_dir, emitted, compiles, exports>>

\* The event loop of the Exporter's thread hands the oldest queued finished
\* signal to Exporter._on_finished.
Deliver ==
  /\ pending # <<>>
  /\ LET e == Head(pending)
     IN notified' = Append(notified,
                           [sent |-> Exporter_on_finished(_worker, e.ok, e.s, e.n),
                            of |-> e])
  /\ pending' = Tail(pending)
  /\ UNCHANGED <<edit_vars, io_vars, _worker, _process, scratch, next_dir, emitted,
                 compiles, exports, cancel_at, exported>>

\* A project of the given clips, audio clips and subtitles, ids from 1.
RECURSIVE WithClips(_, _, _)
WithClips(P, clips, id) ==
  IF clips = <<>> THEN P
  ELSE WithClips(add_clip(Alloc(P, id, Head(clips)), id), Tail(clips), id + 1)
RECURSIVE WithAudioClips(_, _, _)
WithAudioClips(P, clips, id) ==
  IF clips = <<>> THEN P
  ELSE WithAudioClips(add_audio_clip(Alloc(P, id, Head(clips)), id), Tail(clips), id + 1)
RECURSIVE WithSubtitles(_, _, _)
WithSubtitles(P, subs, id) ==
  IF subs = <<>> THEN P
  ELSE WithSubtitles(add_subtitle(Alloc(P, id, Head(subs)), id), Tail(subs), id + 1)

Disabled(c) == [c EXCEPT !.enabled = FALSE]
ProjectVideoInputs ==
  {<<>>,
   <<Clip("a.mp4", 0, 2, 0, 0)>>,
   <<Disabled(Clip("a.mp4", 0, 2, 0, 0))>>,
   <<Clip("a.mp4", 0, 2, 0, 0), Clip("b.mp4", 1, 3, 2, 1)>>,
   <<Clip("a.mp4", 2, 3, 4, 0), Clip("b.mp4", 1, 3, 2, 0), Clip("a.mp4", 0, 2, 0, 0)>>,
   <<Disabled(Clip("b.mp4", 1, 3, 0, 1)), Clip("a.mp4", 0, 2, 2, 0)>>,
   <<Clip("a.mp4", 0, 1, 0, 0), Clip("a.mp4", 1, 2, 1, 0), Clip("a.mp4", 2, 3, 2, 0)>>,
   <<Clip("b.mp4", 1, 3, 0, 1), Clip("a.mp4", 0, 2, 0, 0), Clip("b.mp4", 0, 1, 0, 0)>>}
ProjectAudioInputs ==
  {<<>>, <<AudioClip("m.mp3", 0, 2, 0, 1, 1)>>, <<AudioClip("a.mp4", 0, 2, 0, 0, 1)>>}
ProjectSubtitleInputs == {<<>>, <<Subtitle("hi", 0, 3)>>}
MakeProject(v, a, s) ==
  WithSubtitles(WithAudioClips(WithClips(EmptyProject, v, 1), a, Len(v) + 1),
                s, Len(v) + Len(a) + 1)
ProjectInputs ==
  {MakeProject(v, <<>>, s) : v \in ProjectVideoInputs, s \in ProjectSubtitleInputs}
    \cup {MakeProject(v, a, <<>>) :
            v \in {w \in ProjectVideoInputs : Len(w) # 2}, a \in ProjectAudioInputs}

\* The editor holds a project with an empty history.
InitExport ==
  /\ \E P \in ProjectInputs :
       /\ heap = P.heap
       /\ video_tracks = P.video_tracks
       /\ audio_tracks = P.audio_tracks
       /\ subtitles = P.subtitles
       /\ next_id = Cardinality(DOMAIN P.heap) + 1
  /\ _undo_stack = <<>>
  /\ _redo_stack = <<>>
  /\ next_oid = 1
  /\ last = NoCall
  /\ trail = <<>>
  /\ undo_pre = <<>>
  /\ again = 0
  /\ _max_history = max_history
  /\ evicted = None
  /\ InitExporter
  /\ InitFiles

\* export() called while no export runs.
ExportIdle == ~isRunning(_worker) /\ Export

NextExport ==
  \/ ExportIdle \/ RunPrepare \/ RunBuild \/ RunDuration \/ RunSpawn
  \/ RunCheck \/ RunRead \/ RunWait \/ ProcessExit

\* Exports of a project that is not edited meanwhile, each started when the
\* one before has ended and none cancelled.
SpecExport == InitExport /\ [][NextExport]_vars

\* The projects of the exports whose notifications are followed.
NotifyProjectInputs ==
  {MakeProject(<<>>, <<>>, <<>>),
   MakeProject(<<Clip("a.mp4", 0, 2, 0, 0)>>, <<>>, <<>>),
   MakeProject(<<Clip("a.mp4", 0, 2, 0, 0)>>, <<>>, <<Subtitle("hi", 0, 3)>>)}

InitNotify ==
  /\ \E P \in NotifyProjectInputs :
       /\ heap = P.heap
       /\ video_tracks = P.video_tracks
       /\ audio_tracks = P.audio_tracks
       /\ subtitles = P.subtitles
       /\ next_id = Cardinality(DOMAIN P.heap) + 1
  /\ _undo_stack = <<>>
  /\ _redo_stack = <<>>
  /\ next_oid = 1
  /\ last = NoCall
  /\ trail = <<>>
  /\ undo_pre = <<>>
  /\ again = 0
  /\ _max_history = max_history
  /\ evicted = None
  /\ InitExporter
  /\ InitFiles

NextNotify ==
  \/ Export \/ Cancel \/ RunPrepare \/ RunBuild \/ RunDuration \/ RunSpawn
  \/ RunCheck \/ RunRead \/ RunWait \/ ProcessExit \/ Deliver

\* Exports asked for at any moment, and the delivery of their notifications.
SpecNotify == InitNotify /\ [][NextNotify]_vars

(***************************************************************************)
(* ui/main_window.py: new, open and save of the project file, and          *)
(* Project.import_media.  `saved` is the project as it was when the file   *)
(* was last written in full, `io` the latest of these operations.          *)
(***************************************************************************)
\* The whole project by value.
FullView(P, M) ==
  [view |-> View(P), id |-> M.id, name |-> M.name, settings |-> M.settings,
   media_pool |-> M.media_pool]

\* CommandHistory.clear, and the project the window now shows.
Replace(P) ==
  /\ heap' = P.heap
  /\ video_tracks' = P.video_tracks
  /\ audio_tracks' = P.audio_tracks
  /\ subtitles' = P.subtitles
  /\ _undo_stack' = <<>>
  /\ _redo_stack' = <<>>
  /\ undo_pre' = <<>>
  /\ next_id' = Max({next_id} \cup {i + 1 : i \in DOMAIN P.heap})
  /\ UNCHANGED <<_max_history, next_oid, again, last, trail, evicted>>

\* MainWindow._save_to_file: save_project writes the file, or fails and
\* leaves the file as it was or cut short.
SaveProject ==
  /\ \/ \E now \in {1, 2} :
          /\ disk' = Some(save_project(project, meta, now))
          /\ saved' = Some(FullView(project, meta))
          /\ io' = [op |-> "save", ok |-> TRUE]
     \/ /\ disk' \in {disk, Some(Garbled)}
        /\ saved' = IF disk' = disk THEN saved ELSE None
        /\ io' = [op |-> "save", ok |-> FALSE]
  /\ UNCHANGED <<edit_vars, export_vars, meta, next_pid>>

\* MainWindow._on_open_project
OpenProject ==
  LET r == load_project(disk, next_pid)
  IN IF r.raised
     THEN /\ io' = [op |-> "open", ok |-> FALSE]
          /\ UNCHANGED <<edit_vars, export_vars, meta, disk, saved, next_pid>>
     ELSE /\ Replace(r.P)
          /\ meta' = r.M
          /\ io' = [op |-> "open", ok |-> TRUE]
          /\ UNCHANGED <<export_vars, disk, saved, next_pid>>

\* MainWindow._on_new_project
NewProject ==
  /\ next_pid <= MaxProjects
  /\ Replace(EmptyProject)
  /\ meta' = NewMeta(next_pid, "Untitled")
  /\ next_pid' = next_pid + 1
  /\ io' = [op |-> "new", ok |-> TRUE]
  /\ UNCHANGED <<export_vars, disk, saved>>

\* Project.import_media
ImportMedia ==
  /\ \E file_path \in {"a.mp4", "b.mp4"}, exists \in BOOLEAN :
       /\ meta' = import_media(meta, file_path, exists)
       /\ io' = [op |-> "import", ok |-> meta' # meta]
  /\ UNCHANGED <<edit_vars, export_vars, disk, saved, next_pid>>

\* A project with no track at all, as a project file may hold it.
NoTracks == [EmptyProject EXCEPT !.video_tracks = <<>>, !.audio_tracks = <<>>]
SplitNamed(c) == [c EXCEPT !.name = <<c.name[1], 1>>]
FileProjectInputs ==
  ProjectInputs
    \cup {NoTracks,
          MakeProject(<<Disabled(Clip("a.mp4", 0, 1, 0, 0)),
                        SplitNamed(Clip("a.mp4", 1, 2, 1, 0))>>,
                      <<AudioClip("m.mp3", 0, 2, 0, 1, 2)>>,
                      <<Subtitle("hi", 0, 3)>>)}

\* The window holds a project that was built or opened, and an empty history.
InitFile ==
  /\ \E P \in FileProjectInputs :
       /\ heap = P.heap
       /\ video_tracks = P.video_tracks
       /\ audio_tracks = P.audio_tracks
       /\ subtitles = P.subtitles
       /\ next_id = Cardinality(DOMAIN P.heap) + 1
  /\ _undo_stack = <<>>
  /\ _redo_stack = <<>>
  /\ next_oid = 1
  /\ last = NoCall
  /\ trail = <<>>
  /\ undo_pre = <<>>
  /\ again = 0
  /\ _max_history = max_history
  /\ evicted = None
  /\ InitExporter
  /\ meta \in {NewMeta(1, "Untitled"),
               [NewMeta(1, "trip") EXCEPT !.media_pool = <<"a.mp4">>]}
  /\ disk = None
  /\ saved = None
  /\ io = NoIo
  /\ next_pid = 2

NextFile == SaveProject \/ OpenProject \/ NewProject \/ ImportMedia

\* Saving and opening project files.
SpecFile == InitFile /\ [][NextFile]_vars

NextLive ==
  \/ ExportIdle \/ RunPrepare \/ RunBuild \/ RunDuration \/ RunSpawn
  \/ RunCheck \/ RunRead \/ RunWait \/ ProcessExit \/ ProcessBlocks \/ Deliver

\* Exports with a worker thread that is scheduled, an event loop that runs and
\* a process that ends unless it is stopped in a write.
SpecLive ==
  /\ InitNotify /\ [][NextLive]_vars
  /\ WF_vars(RunPrepare) /\ WF_vars(RunBuild) /\ WF_vars(RunDuration)
  /\ WF_vars(RunSpawn) /\ WF_vars(RunCheck) /\ WF_vars(RunRead) /\ WF_vars(RunWait)
  /\ WF_vars(ProcessExit) /\ WF_vars(Deliver)

\* _on_export starts the worker and returns to the event loop: the window's
\* edit handlers run on the caller's thread while run() is on the worker's.
RaceProjectInputs ==
  {MakeProject(<<Clip("a.mp4", 0, 2, 0, 0), Clip("b.mp4", 1, 3, 2, 0)>>, <<>>, <<>>)}

\* MainWindow._on_clip_delete_requested
_on_clip_delete_requested ==
  /\ next_oid <= MaxCmds
  /\ \E clip_id \in Ids :
       LET cmd == DeleteClipCommand(next_oid, clip_id)
           h == CommandHistory_execute(cmd, project, _undo_stack, _redo_stack, next_id)
       IN /\ Apply("execute", h, FALSE, IF h.ok THEN Pushed(undo_pre, h.undo) ELSE undo_pre)
          /\ next_oid' = IF h.ok THEN next_oid + 1 ELSE next_oid
          /\ evicted' = Dropped(h)
  /\ UNCHANGED again

InitRace ==
  /\ \E P \in RaceProjectInputs :
       /\ heap = P.heap
       /\ video_tracks = P.video_tracks
       /\ audio_tracks = P.audio_tracks
       /\ subtitles = P.subtitles
       /\ next_id = Cardinality(DOMAIN P.heap) + 1
  /\ _undo_stack = <<>>
  /\ _redo_stack = <<>>
  /\ next_oid = 1
  /\ last = NoCall
  /\ trail = <<>>
  /\ undo_pre = <<>>
  /\ again = 0
  /\ _max_history = max_history
  /\ evicted = None
  /\ InitExporter
  /\ InitFiles

NextRace ==
  \/ ExportIdle \/ RunPrepare \/ RunBuild \/ RunDuration \/ RunSpawn
  \/ RunCheck \/ RunRead \/ RunWait \/ ProcessExit
  \/ _on_clip_delete_requested

\* Edits of the project while exports run.
SpecRace == InitRace /\ [][NextRace]_vars

(***************************************************************************)
(* Properties of the command engine.                                       *)
(***************************************************************************)
Top(stack) == stack[Len(stack)]
Oids(stack) == [i \in 1..Len(stack) |-> stack[i].oid]

\* The calls that returned success before the latest call.
Earlier == IF last.ok THEN SubSeq(trail, 1, Len(trail) - 1) ELSE trail
\* The latest call came right after execute(cmd) and undo() of the same command.
AfterExecuteUndo ==
  /\ Len(Earlier) >= 2
  /\ Earlier[Len(Earlier) - 1].op = "execute"
  /\ Earlier[Len(Earlier)].op = "undo"
  /\ Earlier[Len(Earlier)].oid = Earlier[Len(Earlier) - 1].oid
Executed == Earlier[Len(Earlier) - 1]
Undone == Earlier[Len(Earlier)]

\* The entities of a project by kind, whatever their order in the lists.
Effect(view) ==
  [video |-> Range(Flatten(view.video_tracks)),
   audio |-> Range(Flatten(view.audio_tracks)),
   subtitles |-> Range(view.subtitles)]

\* C1: every Clip and AudioClip of every reachable project has
\* out_time > in_time and timeline_start >= 0.
C1_ClipsValid ==
  \A c \in Range(get_all_clips(project)) \cup Range(get_all_audio_clips(project)) :
    heap[c].out_time > heap[c].in_time /\ heap[c].timeline_start >= 0

\* C2: execute(cmd); undo(); redo() for a Move, Trim, Delete, Add, ChangeVolume
\* or Edit command: the redo succeeds, the project is as the execute left it,
\* cmd is on top of the undo stack and the redo stack is empty.
C2Types ==
  {"AddClip", "DeleteClip", "MoveClip", "TrimClip", "AddAudioClip",
   "DeleteAudioClip", "MoveAudioClip", "ChangeAudioVolume", "AddSubtitle",
   "DeleteSubtitle", "EditSubtitle"}
C2_ExecuteUndoRedo ==
  (last.op = "redo" /\ AfterExecuteUndo /\ Executed.type \in C2Types) =>
    /\ last.ok
    /\ View(project) = Undone.view
    /\ can_undo /\ Top(_undo_stack).oid = Executed.oid
    /\ _redo_stack = <<>>
C2_Witness ==
  /\ last.op = "redo" /\ last.ok /\ AfterExecuteUndo
  /\ Executed.type = "DeleteClip"
  /\ last.before.view.video_tracks # View(project).video_tracks
  /\ View(project) = Undone.view

C4_RedoInvalidated ==
  (last.op = "execute" /\ last.ok) => (_redo_stack = <<>> /\ ~can_redo)
C4_Witness ==
  /\ last.op = "execute" /\ last.ok /\ last.before.redo # <<>>
  /\ Len(trail) >= 2 /\ trail[Len(trail) - 1].op = "undo"
  /\ _redo_stack = <<>>

\* The entity with this id in a list of tracks (by value).
EntityIn(tracks, id) ==
  LET all == Flatten(tracks)
  IN all[IndexOf([i \in 1..Len(all) |-> all[i].id], id)]
\* What C5 says a split of clip_id at t turns the video tracks into.
SplitOf(tracks, clip_id, t, new_id) ==
  LET o == EntityIn(tracks, clip_id).fields
      cut == o.in_time + (t - o.timeline_start)
      first == [t1 \in 1..Len(tracks) |->
                  [i \in 1..Len(tracks[t1]) |->
                     IF tracks[t1][i].id = clip_id
                     THEN [id |-> clip_id, fields |-> [o EXCEPT !.out_time = cut]]
                     ELSE tracks[t1][i]]]
      second == [id |-> new_id,
                 fields |-> [o EXCEPT !.in_time = cut, !.timeline_start = t,
                                      !.name = <<o.name[1], o.name[2] + 1>>,
                                      !.enabled = TRUE]]
  IN [first EXCEPT ![o.track_index + 1] = Append(@, second)]
Ids_of(view) ==
  {e.id : e \in Range(Flatten(view.video_tracks)) \cup Range(Flatten(view.audio_tracks))
                \cup Range(view.subtitles)}

\* C5: a split of a clip (in a, out b, start s, track k) at a time t it
\* contains succeeds and leaves the original with out = a + (t - s) and adds
\* one new clip with a fresh id, the same source and track, in = a + (t - s),
\* out = b, start = t; undo() then leaves the project as it was before the
\* split.
C5_Split ==
  /\ \A c \in Range(get_all_clips(project)) : \A t \in SplitInputs :
       contains_time(heap[c], t) =>
         Command_execute(SplitClipCommand(next_oid, c, t), project, next_id).ok
  /\ (last.op = "execute" /\ last.ok /\ last.type = "SplitClip") =>
       LET cmd == Top(_undo_stack)
           new == Get(cmd._new_clip)
       IN /\ new \notin Ids_of(last.before.view)
          /\ View(project) =
               [last.before.view EXCEPT
                  !.video_tracks = SplitOf(@, cmd._clip_id, cmd._split_time, new)]
  /\ (last.op = "undo" /\ last.ok /\ last.type = "SplitClip"
      /\ Len(trail) >= 2 /\ trail[Len(trail) - 1].op \in {"execute", "redo"}
      /\ trail[Len(trail) - 1].oid = trail[Len(trail)].oid) =>
       View(project) = trail[Len(trail) - 1].view
C5_Witness ==
  /\ last.op = "undo" /\ last.ok /\ last.type = "SplitClip"
  /\ Len(trail) >= 2 /\ trail[Len(trail) - 1].op = "execute"
  /\ trail[Len(trail) - 1].oid = trail[Len(trail)].oid
  /\ \E e \in Range(Flatten(View(project).video_tracks)) :
       e.fields.in_time = 1 /\ e.fields.out_time = 3 /\ e.fields.track_index = 1
  /\ Len(Flatten(last.before.view.video_tracks)) =
       Len(Flatten(View(project).video_tracks)) + 1

\* C6: a split at a time outside [timeline_start, timeline_end) of its
\* clip, or of an unknown clip id, returns false, leaves the project as it
\* was and records nothing on either stack.
C6_SplitRejected ==
  /\ \A i \in Ids : \A t \in SplitInputs :
       LET h == CommandHistory_execute(SplitClipCommand(next_oid, i, t), project,
                                       _undo_stack, _redo_stack, next_id)
           outside ==
             IF IsNone(get_clip_by_id(project, i)) THEN TRUE
             ELSE ~(heap[i].timeline_start <= t
                    /\ t < heap[i].timeline_start + (heap[i].out_time - heap[i].in_time))
       IN outside =>
            /\ ~h.ok
            /\ h.P = project
            /\ h.undo = _undo_stack /\ h.redo = _redo_stack
  /\ (last.op = "execute" /\ last.type = "SplitClip" /\ ~last.ok) =>
       /\ View(project) = last.before.view
       /\ _undo_stack = last.before.undo
       /\ _redo_stack = last.before.redo
C6_Witness ==
  /\ last.op = "execute" /\ last.type = "SplitClip" /\ ~last.ok /\ last.found
  /\ can_undo

C8_FailedExecute ==
  /\ (last.op = "execute" /\ ~last.ok) =>
       /\ View(project) = last.before.view
       /\ _undo_stack = last.before.undo
       /\ _redo_stack = last.before.redo
  /\ \A cmd \in TargetCommands(next_oid) :
       LET r == Command_execute(cmd, project, next_id)
           h == CommandHistory_execute(cmd, project, _undo_stack, _redo_stack, next_id)
       IN /\ ~Found(cmd, project) => ~r.ok
          /\ ~r.ok => (~h.ok /\ h.P = project /\ h.undo = _undo_stack
                       /\ h.redo = _redo_stack)
C8_Witness ==
  /\ last.op = "execute" /\ ~last.ok /\ last.type = "DeleteClip"
  /\ can_redo
(***************************************************************************)
(* Properties of the export compiler and the export worker.                *)
(***************************************************************************)
\* The enabled video clips of the project.
EnabledVideo(P) == {c \in Range(get_all_clips(P)) : P.heap[c].enabled}
\* The signals the worker emitted that end an export.
Terminal == SelectSeq(emitted, LAMBDA e : e.sig = "finished")
\* The latest compilation.
Compiled == compiles[Len(compiles)]
\* A command with the path of the subtitle file left out.
MaskNode(node) == [node EXCEPT !.path = NoPath]
MaskPath(cmd) ==
  [i \in 1..Len(cmd) |->
     IF cmd[i].kind = "graph"
     THEN Graph([j \in 1..Len(cmd[i].parts) |-> MaskNode(cmd[i].parts[j])])
     ELSE cmd[i]]

\* C9: compiling a project with no enabled video clip (no clip at all, or
\* disabled clips only) raises before any of the command is built, and the
\* worker then reports the failure and never starts the process: once the
\* worker is past the compilation it has compiled nothing, it has emitted
\* finished(False, "No video clips to export") as its one terminal signal, it
\* is done and there is no process.
C9_NoVideoFailsFast ==
  (EnabledVideo(project) = {} /\ _worker.pc \notin {"none", "prepare", "build"})
    => /\ Compiled.raised
       /\ Compiled.cmd = <<>>
       /\ _worker.cmd = <<>>
       /\ _worker.pc = "done"
       /\ Terminal = <<Finished(FALSE, "No video clips to export")>>
       /\ _process = NoProcess
C9_Witness ==
  /\ get_all_clips(project) # <<>>
  /\ EnabledVideo(project) = {}
  /\ _worker.pc = "done"
  /\ compiles # <<>>

InputFiles(cmd) ==
  LET at == SelectSeq([i \in 1..Len(cmd) |-> i],
                      LAMBDA i : i < Len(cmd) /\ cmd[i] = Arg("-i"))
  IN [k \in 1..Len(at) |-> cmd[at[k] + 1].s]
\* The filters of a command's graph with this name, in order.
Filters(cmd, name) ==
  LET g == SelectSeq(cmd, LAMBDA a : a.kind = "graph")
  IN IF g = <<>> THEN <<>> ELSE SelectSeq(g[1].parts, LAMBDA node : node.filter = name)
\* The source files of the enabled clips and audio clips of a project.
EnabledFiles(P) ==
  {P.heap[c].source_file :
     c \in {x \in Range(get_all_clips(P)) \cup Range(get_all_audio_clips(P)) :
              P.heap[x].enabled}}

\* C11: in the command compiled from the project, every source file of an
\* enabled clip has exactly one -i entry and no other file has one; the trim
\* of the i-th clip (in timeline order) reads the input of that clip's file;
\* and the inputs are numbered in order of first use: each trim reads an
\* input an earlier trim read, or the next unused one.
C11_InputDedup ==
  (compiles # <<>> /\ ~Compiled.raised) =>
    LET files == InputFiles(Compiled.cmd)
        trims == Filters(Compiled.cmd, "trim,setpts")
        clips == _collect_video_clips(project)
        index == [k \in 1..Len(trims) |-> trims[k].ins[1].n]
    IN /\ \A i, j \in 1..Len(files) : files[i] = files[j] => i = j
       /\ Range(files) = EnabledFiles(project)
       /\ Len(trims) = Len(clips)
       /\ \A k \in 1..Len(trims) :
            /\ trims[k].ins[1].name = "in:v"
            /\ index[k] \in 0..(Len(files) - 1)
            /\ files[index[k] + 1] = clips[k].source_file
            /\ trims[k].a = clips[k].in_time /\ trims[k].b = clips[k].out_time
            /\ \/ \E h \in 1..(k - 1) : index[h] = index[k]
               \/ index[k] = Cardinality({index[h] : h \in 1..(k - 1)})
C11_Witness ==
  /\ compiles # <<>> /\ ~Compiled.raised
  /\ Len(_collect_video_clips(project)) = 3
  /\ InputFiles(Compiled.cmd) = <<"a.mp4">>
  /\ Len(Filters(Compiled.cmd, "trim,setpts")) = 3
  /\ \A k \in 1..3 : Filters(Compiled.cmd, "trim,setpts")[k].ins[1].n = 0

\* C12: a project opened from the file that save wrote equals the project
\* that was saved in every field: id, name, the video and the audio tracks
\* with every field of every clip, the subtitles, the settings and the media
\* pool.
C12_RoundTrip ==
  /\ (io.op = "open" /\ io.ok) =>
       (~IsNone(saved) /\ FullView(project, meta) = Get(saved))
  /\ LET r == load_project(Some(save_project(project, meta, 1)), next_pid)
     IN ~r.raised /\ FullView(r.P, r.M) = FullView(project, meta)
C12_Witness ==
  /\ io.op = "open" /\ io.ok
  /\ meta.id = 1 /\ next_pid = 3
  /\ meta.media_pool = <<"a.mp4", "b.mp4">>
  /\ \E c \in Range(get_all_clips(project)) :
       ~heap[c].enabled /\ heap[c].name = <<"a.mp4", 0>>
  /\ \E c \in Range(get_all_clips(project)) : heap[c].name = <<"a.mp4", 1>>
  /\ subtitles # <<>>
\* The scratch directories the worker's run made.
RunDirs == {_worker.temp_dir, _worker.builder._temp_dir} \ {NoDir}

\* C13: when an export run has ended, on whatever path, every scratch
\* directory made for it is deleted.
C13_ScratchDeleted ==
  _worker.pc = "done" => RunDirs \cap scratch = {}

\* C14: when cancel() was called while the export was running, before its
\* terminal signal, the terminal signal is the cancellation failure.
C14_CancelWins ==
  (_worker.pc = "done" /\ cancel_at \notin {"never", "done"})
    => Terminal = <<Finished(FALSE, "Export cancelled")>>

\* C15: an export() call made while a worker is running starts no worker
\* and no process and leaves the running export, its settings and its
\* signals as they were.
C15_OneExportInFlight ==
  [][(exports' # exports /\ isRunning(_worker))
       => /\ _worker' = _worker
          /\ _process' = _process
          /\ emitted' = emitted
          /\ scratch' = scratch /\ compiles' = compiles]_vars
C15_Witness ==
  /\ exports = 2 /\ Len(compiles) = 1
  /\ _worker.pc = "done" /\ Terminal = <<Finished(TRUE, "")>>
  /\ _process.state = "exited"

\* The export runs that have ended.
EndedRuns ==
  Len(compiles) - (IF _worker.pc \in {"duration", "spawn", "check", "read", "wait"} THEN 1 ELSE 0)

\* C16: a run of the worker emits no terminal signal while it runs and, once
\* it has ended on whatever path, exactly one, which is the last signal it
\* emitted; every ended run has one terminal notification, queued for or
\* delivered by the Exporter.
C16_OneTerminal ==
  /\ isRunning(_worker) => Terminal = <<>>
  /\ _worker.pc = "done"
       => Len(Terminal) = 1 /\ emitted[Len(emitted)].sig = "finished"
  /\ Len(pending) + Len(notified) = EndedRuns
C16_Witness ==
  /\ _worker.pc = "done" /\ pending = <<>> /\ Len(notified) = 2
  /\ notified[1].sent.ok
  /\ notified[2].of.s = "Export cancelled"
  /\ Len(emitted) > 3

\* The progress values the running worker has emitted, in thousandths.
ProgressValues ==
  {emitted[i].n : i \in {j \in 1..Len(emitted) : emitted[j].sig = "progress"}}

\* C17: every progress value an export emits lies in [0, 1], whatever
\* out_time_ms the process reports; it is below 1.0 while the process runs,
\* and 1.0 is emitted only after the process has exited with code 0.
C17_ProgressBounded ==
  /\ \A p \in ProgressValues : 0 <= p /\ p <= 1000
  /\ 1000 \in ProgressValues
       => _process.state = "exited" /\ _process.returncode = 0

\* C18: the notification the caller gets for a run that was not cancelled
\* and whose process exited is (True, the output path of that run) when the
\* exit code was 0 and else (False, a message with the first 500 characters
\* of the stderr of the process at most).
C18_ExitNotification ==
  \A i \in DOMAIN notified :
    LET e == notified[i].of
        sent == notified[i].sent
    IN (~e.cancelled /\ ~IsNone(e.exit))
         => IF Get(e.exit) = 0
            THEN sent = [ok |-> TRUE, s |-> e.from, n |-> 0]
            ELSE /\ ~sent.ok /\ sent.s = "FFmpeg error: "
                 /\ sent.n <= 500 /\ sent.n <= e.stderr
                 /\ (e.stderr <= 500 => sent.n = e.stderr)

\* No entity is twice in a sequence of entities.
NoSharedId(seq) == \A i, j \in 1..Len(seq) : seq[i] = seq[j] => i = j

\* C19: after any sequence of execute, undo and redo calls no two video
\* clips share an id, no two audio clips share an id and no two subtitles
\* share an id.
C19_UniqueIds ==
  /\ NoSharedId(Flatten(video_tracks))
  /\ NoSharedId(Flatten(audio_tracks))
  /\ NoSharedId(subtitles)

\* C20: a Trim of a clip of the project whose new values would leave the
\* clip with in_time >= out_time is rejected: execute returns false and the
\* project and both stacks are left as they were.
C20_TrimRejected ==
  \A c \in Range(get_all_clips(project)) : \A x \in TrimInputs :
    LET cmd == TrimClipCommand(next_oid, c, x[1], x[2], x[3])
        h == CommandHistory_execute(cmd, project, _undo_stack, _redo_stack, next_id)
    IN OrKeep(x[1], heap[c].in_time) >= OrKeep(x[2], heap[c].out_time)
         => /\ ~h.ok
            /\ h.P = project
            /\ h.undo = _undo_stack /\ h.redo = _redo_stack

\* The projects an editing session may start from: a project that was opened
\* from a file, or made by commands the history no longer holds.
EditProjectInputs ==
  {MakeProject(<<>>, <<>>, <<>>),
   MakeProject(<<Clip("a.mp4", 0, 2, 0, 0)>>, <<>>, <<>>),
   MakeProject(<<Disabled(Clip("a.mp4", 0, 2, 0, 0))>>, <<>>, <<>>),
   MakeProject(<<Clip("a.mp4", 0, 2, 0, 0), Clip("b.mp4", 1, 3, 2, 0)>>, <<>>, <<>>),
   MakeProject(<<>>, <<AudioClip("m.mp3", 0, 2, 0, 1, 1),
                       AudioClip("n.mp3", 0, 2, 2, 1, 1)>>, <<>>),
   MakeProject(<<>>, <<>>, <<Subtitle("hi", 0, 3), Subtitle("ho", 3, 1)>>)}

\* MainWindow with such a project and an empty history.
InitEdit ==
  /\ \E P \in EditProjectInputs :
       /\ heap = P.heap
       /\ video_tracks = P.video_tracks
       /\ audio_tracks = P.audio_tracks
       /\ subtitles = P.subtitles
       /\ next_id = Cardinality(DOMAIN P.heap) + 1
  /\ _undo_stack = <<>>
  /\ _redo_stack = <<>>
  /\ next_oid = 1
  /\ last = NoCall
  /\ trail = <<>>
  /\ undo_pre = <<>>
  /\ again = 0
  /\ _max_history = max_history + 1
  /\ evicted = None
  /\ InitExporter
  /\ InitFiles

\* Commands, each handed to execute once, on a project that holds entities
\* when the history starts.
SpecEdit == InitEdit /\ [][Next]_vars

(***************************************************************************)
(* Properties of single commands and of the history, continued.            *)
(***************************************************************************)
\* The latest call was a successful undo() that came right after the
\* successful execute(cmd) of the command it undid.
UndoAfterExecute ==
  /\ last.op = "undo" /\ last.ok
  /\ Len(trail) >= 2
  /\ trail[Len(trail)].op = "undo"
  /\ trail[Len(trail) - 1].op = "execute"
  /\ trail[Len(trail)].oid = trail[Len(trail) - 1].oid
\* The project as it was before that execute.
BeforeExecute == trail[Len(trail) - 1].view

\* C21: execute() and then undo() of a DeleteClip, DeleteAudioClip or
\* DeleteSubtitle command leaves the project as it was before the execute:
\* the entity is back with its fields, on its track, at its position.
C21_DeleteUndoRestores ==
  (UndoAfterExecute /\ last.type \in {"DeleteClip", "DeleteAudioClip", "DeleteSubtitle"})
    => View(project) = BeforeExecute

\* A list of entities without those of the given id.
Without(seq, id) == SelectSeq(seq, LAMBDA e : e.id # id)
WithoutInTracks(tracks, id) == [t \in 1..Len(tracks) |-> Without(tracks[t], id)]
\* What a remove of id from one collection has to give: found tells whether
\* the id was there; the collection loses that one entity and nothing else.
Removed(r, before, after, id) ==
  /\ r.found = (id \in {e.id : e \in Range(before)})
  /\ ~r.found => r.P = project
  /\ r.found => Len(after) = Len(before) - 1

\* C22: remove_clip, remove_audio_clip and remove_subtitle with an id that is
\* not in their collection return false and change nothing; with an id that
\* is there they return true and take out that one entity, the others
\* keeping their order, and a second remove of the id returns false.  The
\* projects are those in which no id is twice in a collection.
C22_Remove ==
  \A id \in 1..(MaxIds + 1) :
    LET v == View(project)
        rc == remove_clip(project, id)
        ra == remove_audio_clip(project, id)
        rs == remove_subtitle(project, id)
    IN /\ Removed(rc, Flatten(v.video_tracks), Flatten(View(rc.P).video_tracks), id)
       /\ View(rc.P) = [v EXCEPT !.video_tracks = WithoutInTracks(@, id)]
       /\ ~remove_clip(rc.P, id).found
       /\ Removed(ra, Flatten(v.audio_tracks), Flatten(View(ra.P).audio_tracks), id)
       /\ View(ra.P) = [v EXCEPT !.audio_tracks = WithoutInTracks(@, id)]
       /\ ~remove_audio_clip(ra.P, id).found
       /\ Removed(rs, v.subtitles, View(rs.P).subtitles, id)
       /\ View(rs.P) = [v EXCEPT !.subtitles = Without(@, id)]
       /\ ~remove_subtitle(rs.P, id).found
C22_Witness ==
  /\ last.op = "execute" /\ last.ok /\ last.type = "DeleteClip"
  /\ Len(Flatten(video_tracks)) = 1
  /\ Len(Flatten(last.before.view.video_tracks)) = 2
  /\ video_tracks[1][1] = 1

\* The ids of the commands of a stack, without its top.
Below(stack) == SubSeq(Oids(stack), 1, Len(stack) - 1)

\* C23: redo() on an empty redo stack returns nothing and changes nothing;
\* otherwise it executes the top command of the redo stack: when that
\* succeeds the command is on top of the undo stack, which is not capped,
\* and the rest of the redo stack is kept; when it fails both stacks and the
\* project are as before and nothing is returned.
C23_Redo ==
  last.op = "redo" =>
    LET b == last.before
    IN /\ b.redo = <<>> =>
            /\ ~last.ok
            /\ View(project) = b.view /\ _undo_stack = b.undo /\ _redo_stack = <<>>
       /\ (b.redo # <<>> /\ last.ok) =>
            /\ last.type = Top(b.redo).type
            /\ Oids(_undo_stack) = Append(Oids(b.undo), Top(b.redo).oid)
            /\ Oids(_redo_stack) = Below(b.redo)
       /\ (b.redo # <<>> /\ ~last.ok) =>
            /\ last.type = Top(b.redo).type
            /\ _undo_stack = b.undo
            /\ Oids(_redo_stack) = Oids(b.redo)
            /\ View(project) = b.view
\* A redo that succeeded with a command left below it on the redo stack.
C23_Witness ==
  /\ last.op = "redo" /\ last.ok
  /\ Len(last.before.redo) = 2 /\ Len(_redo_stack) = 1 /\ Len(_undo_stack) = 1
\* A redo on an empty redo stack, and a redo whose command failed.
C23_WitnessEmpty ==
  /\ last.op = "redo" /\ last.before.redo = <<>> /\ can_undo
C23_WitnessFailed ==
  /\ last.op = "redo" /\ ~last.ok /\ last.before.redo # <<>>

\* The fields the entity `id` has in a project view.
FieldsIn(view, id) ==
  {e.fields : e \in {x \in UNION {Effect(view)[k] : k \in {"video", "audio", "subtitles"}} :
                       x.id = id}}
C24Types ==
  {"MoveClip", "TrimClip", "MoveAudioClip", "ChangeAudioVolume", "EditSubtitle"}

AtTrackIndex(tracks) ==
  \A t \in 1..Len(tracks) : \A i \in 1..Len(tracks[t]) :
    heap[tracks[t][i]].track_index = t - 1

\* C25: in every reachable project each video clip is listed exactly once in
\* the video tracks, in the list at its track_index, and each audio clip
\* likewise in the audio tracks.
C25_OneTrack ==
  /\ AtTrackIndex(video_tracks) /\ NoSharedId(Flatten(video_tracks))
  /\ AtTrackIndex(audio_tracks) /\ NoSharedId(Flatten(audio_tracks))

\* The enabled clips of all video tracks, track by track, each track in
\* insertion order.
EnabledInTrackOrder(P) == SelectSeq(get_all_clips(P), LAMBDA c : P.heap[c].enabled)
\* The place of the i-th of them in timeline order: after the clips that
\* start earlier and after those that start with it and come before it.
Rank(P, i) ==
  LET on == EnabledInTrackOrder(P)
      start(k) == P.heap[on[k]].timeline_start
  IN 1 + Cardinality({j \in 1..Len(on) :
                        start(j) < start(i) \/ (start(j) = start(i) /\ j < i)})
TimelineOrder(P) ==
  LET on == EnabledInTrackOrder(P)
  IN [k \in 1..Len(on) |-> on[CHOOSE i \in 1..Len(on) : Rank(P, i) = k]]

\* The worker has just compiled a command.
JustCompiled == _worker.pc = "duration" /\ compiles # <<>> /\ ~Compiled.raised

\* C26: the compiler's video clip sequence is exactly the enabled clips of
\* all video tracks ordered by timeline_start, equal starts by track index
\* and then by insertion order within the track; the compiled command has one
\* trim node for each of them, in that order, and no input for a file that
\* only a disabled clip uses.
C26_TimelineOrder ==
  JustCompiled =>
    LET order == TimelineOrder(project)
        clips == _collect_video_clips(project)
        trims == Filters(Compiled.cmd, "trim,setpts")
        files == InputFiles(Compiled.cmd)
    IN /\ clips = [k \in 1..Len(order) |-> TrimmedClip(heap[order[k]])]
       /\ Len(trims) = Len(order)
       /\ \A k \in 1..Len(trims) :
            /\ files[trims[k].ins[1].n + 1] = heap[order[k]].source_file
            /\ trims[k].a = heap[order[k]].in_time
            /\ trims[k].b = heap[order[k]].out_time
            /\ trims[k].out = Label("v", k - 1)
       /\ Range(files) \subseteq EnabledFiles(project)
\* Three enabled clips that start together, the one on track 1 made first:
\* the trims follow track 0 in insertion order and then track 1.
C26_Witness ==
  /\ JustCompiled
  /\ video_tracks = <<<<2, 3>>, <<1>>>>
  /\ \A c \in 1..3 : heap[c].enabled /\ heap[c].timeline_start = 0
  /\ TimelineOrder(project) = <<2, 3, 1>>
  /\ Len(Filters(Compiled.cmd, "trim,setpts")) = 3
  /\ Filters(Compiled.cmd, "trim,setpts")[3].b = 3

\* The nodes of a command's graph that write this label.
Writers(cmd, label) ==
  LET g == SelectSeq(cmd, LAMBDA a : a.kind = "graph")
  IN IF g = <<>> THEN <<>> ELSE SelectSeq(g[1].parts, LAMBDA node : node.out = label)

\* C27: for the k-th enabled audio clip of the project in timeline order the
\* compiled graph has an audio trim node labelled a(k-1) that reads the input
\* of that clip's file over the clip's in_time and out_time, and the node
\* that writes the final audio stream reads its output.
C27_AudioClipTrims ==
  (compiles # <<>> /\ ~Compiled.raised) =>
    LET audio == _collect_audio_clips(project)
        files == InputFiles(Compiled.cmd)
        atrims == Filters(Compiled.cmd, "atrim,asetpts")
        outa == Writers(Compiled.cmd, Label("outa", 0))
    IN \A k \in 1..Len(audio) :
         \E i \in 1..Len(atrims) :
           /\ atrims[i].out = Label("a", k - 1)
           /\ atrims[i].ins[1].name = "in:a"
           /\ files[atrims[i].ins[1].n + 1] = audio[k].source_file
           /\ atrims[i].a = audio[k].in_time /\ atrims[i].b = audio[k].out_time
           /\ Len(outa) = 1 /\ atrims[i].out \in Range(outa[1].ins)

\* The trim labels v0..v(n-1) or a0..a(n-1).
Labels(name, n) == [k \in 1..n |-> Label(name, k - 1)]

\* C28: the compiled graph has a concat node if and only if there is more
\* than one clip; it then has one for video and one for audio, each joining
\* the n trim outputs in timeline order with n the number of clips.  With one
\* clip there is no concat node and the single trim output is passed through
\* null (anull) to the canonical output.  outv and outa have one writer each.
C28_Concat ==
  JustCompiled =>
    LET n == Len(TimelineOrder(project))
        vc == Filters(Compiled.cmd, "concat:v=1:a=0")
        ac == Filters(Compiled.cmd, "concat:v=0:a=1")
        outv == Writers(Compiled.cmd, Label("outv", 0))
        outa == Writers(Compiled.cmd, Label("outa", 0))
    IN /\ Len(outv) = 1 /\ Len(outa) = 1
       /\ (vc # <<>> \/ ac # <<>>) <=> n > 1
       /\ n > 1 =>
            /\ vc = outv /\ ac = outa
            /\ vc[1].ins = Labels("v", n) /\ vc[1].a = n
            /\ ac[1].ins = Labels("a", n) /\ ac[1].a = n
       /\ n = 1 =>
            /\ outv[1].filter = "null" /\ outv[1].ins = Labels("v", 1)
            /\ outa[1].filter = "anull" /\ outa[1].ins = Labels("a", 1)
       /\ \A k \in 1..n :
            /\ Len(Writers(Compiled.cmd, Label("v", k - 1))) = 1
            /\ Writers(Compiled.cmd, Label("v", k - 1))[1].filter = "trim,setpts"
            /\ Len(Writers(Compiled.cmd, Label("a", k - 1))) = 1
            /\ Writers(Compiled.cmd, Label("a", k - 1))[1].filter = "atrim,asetpts"
\* One compilation of three clips.
C28_Witness ==
  /\ JustCompiled
  /\ Len(TimelineOrder(project)) = 3
  /\ Len(Filters(Compiled.cmd, "concat:v=1:a=0")) = 1
  /\ Filters(Compiled.cmd, "concat:v=0:a=1")[1].ins = Labels("a", 3)
\* One compilation of one clip (a disabled one beside it).
C28_WitnessSingle ==
  /\ JustCompiled
  /\ Len(TimelineOrder(project)) = 1 /\ Len(get_all_clips(project)) = 2
  /\ Filters(Compiled.cmd, "concat:v=1:a=0") = <<>>
  /\ Writers(Compiled.cmd, Label("outv", 0))[1].filter = "null"

\* Project.duration of a project view.
ViewDuration(view) ==
  Max({0}
      \cup {timeline_end(e.fields) :
              e \in {x \in Effect(view).video \cup Effect(view).audio : x.fields.enabled}}
      \cup {end_time(e.fields) : e \in Effect(view).subtitles})

\* C29: the command an export runs is compiled from the project as it was
\* when export() was called, and the total duration of its progress is the
\* duration of that project.
C29_ExportSnapshot ==
  /\ _worker.pc \in {"duration", "spawn", "check", "read", "wait"} =>
       Compiled.view = Get(exported)
  /\ _worker.pc \in {"spawn", "check", "read", "wait"} =>
       /\ _worker.total_duration = ViewDuration(Get(exported))
       /\ _worker.total_duration = ViewDuration(Compiled.view)

\* C30: in every reachable state of the history the undo stack and the redo
\* stack together hold at most max_history commands.
C30_StacksBound == Len(_undo_stack) + Len(_redo_stack) <= _max_history
\* The limit has dropped a command, and a redo has then filled the undo stack
\* to the limit again.
C30_Witness ==
  /\ last.op = "redo" /\ last.ok
  /\ ~IsNone(evicted)
  /\ Len(last.before.undo) + Len(last.before.redo) = _max_history
  /\ Len(_undo_stack) = _max_history /\ _redo_stack = <<>>

\* C31: after a split that succeeded on a clip of positive duration, the
\* original and the new clip both have out_time > in_time, also when the
\* split time is the clip's timeline_start.
C31_SplitPositive ==
  (last.op = "execute" /\ last.ok /\ last.type = "SplitClip") =>
    LET cmd == Top(_undo_stack)
        was == FieldsIn(last.before.view, cmd._clip_id)
    IN (\A f \in was : f.out_time > f.in_time) =>
         /\ heap[cmd._clip_id].out_time > heap[cmd._clip_id].in_time
         /\ heap[Get(cmd._new_clip)].out_time > heap[Get(cmd._new_clip)].in_time

\* The number of entries with this op at the end of a sequence of calls.
RECURSIVE Trailing(_, _)
Trailing(calls, op) ==
  IF calls = <<>> \/ calls[Len(calls)].op # op THEN 0
  ELSE 1 + Trailing(SubSeq(calls, 1, Len(calls) - 1), op)
\* The redo() calls that succeeded just before the latest call, and the
\* undo() calls that succeeded just before those.
Redone == Trailing(Earlier, "redo")
Undos == Trailing(SubSeq(Earlier, 1, Len(Earlier) - Redone), "undo")

\* C32: after k undo() calls that succeeded in a row, each of the next k
\* redo() calls succeeds, and the k-th leaves the redo stack empty when the
\* undos came right after an execute.
C32_RedoAfterUndos ==
  (last.op = "redo" /\ Redone < Undos) =>
    /\ last.ok
    /\ (Redone + 1 = Undos /\ Len(Earlier) > Redone + Undos
        /\ Earlier[Len(Earlier) - Redone - Undos].op = "execute") => _redo_stack = <<>>

\* C33: when every command object is handed to execute() once and added
\* entities are fresh, undo() on a non-empty undo stack succeeds and takes the
\* top command off the undo stack, so repeated undo() empties it.
C33_UndoSucceeds ==
  (last.op = "undo" /\ last.before.undo # <<>>) =>
    /\ last.ok
    /\ last.type = Top(last.before.undo).type
    /\ Oids(_undo_stack) = Below(last.before.undo)
\* Two undos in a row, the second of a split, have emptied the undo stack.
C33_Witness ==
  /\ last.op = "undo" /\ last.ok /\ last.type = "SplitClip"
  /\ Len(last.before.undo) = 1 /\ _undo_stack = <<>>
  /\ Len(trail) >= 2 /\ trail[Len(trail) - 1].op = "undo"
  /\ Len(_redo_stack) = 2

\* C34: execute() and then undo() of an AddClip or AddAudioClip command
\* leaves the project as it was before the execute, with as many video and
\* audio tracks, whatever the track_index of the added clip.
C34_AddUndoRestores ==
  (UndoAfterExecute /\ last.type \in {"AddClip", "AddAudioClip"}) =>
    /\ View(project) = BeforeExecute
    /\ Len(video_tracks) = Len(BeforeExecute.video_tracks)
    /\ Len(audio_tracks) = Len(BeforeExecute.audio_tracks)

\* The entities of a view other than these ids.
Others(view, ids) ==
  {e \in UNION {Effect(view)[k] : k \in {"video", "audio", "subtitles"}} : e.id \notin ids}

\* C35: after a split that succeeded the original piece ends on the timeline
\* at the split time, the new piece starts there and ends where the original
\* ended before, the two durations add up to the original's, and every other
\* clip, audio clip and subtitle is as it was.
C35_SplitCoverage ==
  (last.op = "execute" /\ last.ok /\ last.type = "SplitClip") =>
    LET cmd == Top(_undo_stack)
        id == cmd._clip_id
        new == Get(cmd._new_clip)
    IN \A was \in FieldsIn(last.before.view, id) :
         /\ timeline_end(heap[id]) = cmd._split_time
         /\ heap[id].timeline_start = was.timeline_start
         /\ heap[new].timeline_start = cmd._split_time
         /\ timeline_end(heap[new]) = timeline_end(was)
         /\ duration(heap[id]) + duration(heap[new]) = duration(was)
         /\ Others(View(project), {id, new}) = Others(last.before.view, {id})
\* A split of the first of two clips strictly inside it.
C35_Witness ==
  /\ last.op = "execute" /\ last.ok /\ last.type = "SplitClip"
  /\ Top(_undo_stack)._split_time = 1 /\ Top(_undo_stack)._clip_id = 1
  /\ Len(Flatten(last.before.view.video_tracks)) = 2
  /\ Len(Flatten(video_tracks)) = 3
  /\ duration(heap[1]) = 1 /\ duration(heap[3]) = 1

\* The video clips of a view that the compiler and get_clips_at_time look at.
EnabledIn(view) == {e \in Effect(view).video : e.fields.enabled}

\* C36: the clip a split creates has the enabled flag of the clip it was
\* split from, and a split of a disabled clip changes neither the project's
\* duration nor the enabled video clips.
C36_SplitKeepsEnabled ==
  (last.op = "execute" /\ last.ok /\ last.type = "SplitClip") =>
    LET cmd == Top(_undo_stack)
    IN \A was \in FieldsIn(last.before.view, cmd._clip_id) :
         /\ heap[Get(cmd._new_clip)].enabled = was.enabled
         /\ ~was.enabled =>
              /\ project_duration(project) = ViewDuration(last.before.view)
              /\ EnabledIn(View(project)) = EnabledIn(last.before.view)

\* The nodes of the latest compilation's filter graph, in order.
Parts == SelectSeq(Compiled.cmd, LAMBDA a : a.kind = "graph")[1].parts
\* A label that names a stream of an input file, not the output of a node.
IsInputStream(l) ==
  l.name \in {"in:v", "in:a"} /\ l.n \in 0..(Len(InputFiles(Compiled.cmd)) - 1)
\* How many times the nodes read a label.
Reads(l) ==
  Cardinality({<<i, k>> \in (1..Len(Parts)) \X (1..3) :
                 k <= Len(Parts[i].ins) /\ Parts[i].ins[k] = l})
Mapped == {Label("final", 0), Label("outa", 0)}

\* C37: in every filter graph the compiler emits each label is written by
\* exactly one node, each label a node reads is a stream of an input file or
\* was written by an earlier node, each label that is not mapped is read
\* exactly once, and final and outa are written and mapped.
C37_GraphWellFormed ==
  JustCompiled =>
    /\ \A i, j \in 1..Len(Parts) : Parts[i].out = Parts[j].out => i = j
    /\ \A i \in 1..Len(Parts) :
         /\ Len(Parts[i].ins) \in 1..3
         /\ \A k \in 1..Len(Parts[i].ins) :
              \/ IsInputStream(Parts[i].ins[k])
              \/ \E j \in 1..(i - 1) : Parts[j].out = Parts[i].ins[k]
         /\ ~IsInputStream(Parts[i].out)
         /\ Reads(Parts[i].out) = IF Parts[i].out \in Mapped THEN 0 ELSE 1
    /\ Mapped \subseteq {Parts[i].out : i \in 1..Len(Parts)}
    /\ \E i, j \in 1..(Len(Compiled.cmd) - 1) :
         /\ Compiled.cmd[i] = Arg("-map") /\ Compiled.cmd[i + 1] = Arg("[final]")
         /\ Compiled.cmd[j] = Arg("-map") /\ Compiled.cmd[j + 1] = Arg("[outa]")
\* Three clips, scaled, with the subtitles burned in: ten nodes.
C37_Witness ==
  /\ JustCompiled
  /\ Compiled.settings.width # 0 /\ Compiled.srt_exists
  /\ Len(TimelineOrder(project)) = 3
  /\ Len(Parts) = 10
  /\ Parts[10].filter = "subtitles" /\ Parts[10].ins = <<Label("scaled", 0)>>

\* C38: every export that was started ends and its terminal notification is
\* delivered: the worker never waits forever.
C38_ExportEnds ==
  isRunning(_worker) ~> (~isRunning(_worker) /\ pending = <<>> /\ notified # <<>>)

====
